---- MODULE Spec2Model ----
(***************************************************************************)
(* Model of the JSON import / reconciliation engine of work-time-tracker   *)
(* (ImportService in src/js/integration-test.js, DataRepository in         *)
(* src/js/repository.js, Order / Activity in src/js/models.js).            *)
(*                                                                         *)
(* JavaScript values are represented as TLA+ strings.  A value written in  *)
(* angle brackets ("<undefined>", "<null>", "<number>", "<object>") stands *)
(* for a value that is not a JavaScript string; every other TLA+ string is *)
(* the JavaScript string with that text, except for the named long /       *)
(* whitespace / control-character strings whose properties are tabulated   *)
(* in StrLen, Trim and HasControlChar.                                     *)
(***************************************************************************)
EXTENDS Integers, Sequences, FiniteSets, TLC

VARIABLES
    store,           \* dataRepository.data : [orders, activities]
    pc,              \* position of the running import call
    importData,      \* executeImport argument: the flat batch
    duplicateCheck,  \* executeImport argument: result of checkDuplicates
    options,         \* executeImport argument: options object or UNDEFINED
    idx,             \* loop position inside importOrders / importActivities
    loopResult,      \* local `result` of importOrders / importActivities
    result,          \* `result` of executeImport
    storeBefore,     \* history: the store when the call started
    outcomes,        \* history: per processed record, which counter it hit
    entry,           \* the method of ImportService that was called
    jsonData,        \* the parsed document handed to validateImportData
    validation,      \* the result of validateImportData
    thrown,          \* what importFromJSON threw, "none" if it returned
    integrity,       \* the result of validateDataIntegrity
    converted,       \* the result of the flatten / re-nest round trip
    processedError,  \* processedError of the error an entry point threw, if it has one
    sessionStore,    \* repository.data : [sessions, currentSession]
    timer,           \* TimerService : [currentSession, timerInterval]
    timerCall        \* history: the last call of TimerService, its argument and what it returned

vars == <<store, pc, importData, duplicateCheck, options, idx, loopResult,
          result, storeBefore, outcomes, entry, jsonData, validation, thrown,
          integrity, converted, processedError, sessionStore, timer, timerCall>>

----------------------------------------------------------------------------
(* Bounds of the model *)

MaxStoreActivities == 1
MaxBatchOrders == 2
MaxBatchActivities == 1
MaxDocOrders == 2
MaxNestedActivities == 1
MaxIntegrityOrders == 2
MaxIntegrityActivities == 3
MaxConvertOrders == 2
MaxConvertActivities == 1
MaxErrors == 10
MaxSessions == 3

----------------------------------------------------------------------------
(* JavaScript values *)

UNDEFINED == "<undefined>"
NULL == "<null>"
NUMBER == "<number>"
OBJECT == "<object>"

NonStrings == {UNDEFINED, NULL, NUMBER, OBJECT}

\* typeof v === 'string'
IsString(v) == v \notin NonStrings

\* JavaScript truthiness (the modelled number and object are truthy)
Truthy(v) == v \notin {UNDEFINED, NULL, ""}

\* String.prototype.trim
Trim(s) ==
    CASE s = " " -> ""
      [] s = " A " -> "A"
      [] s = "<0x09>A" -> "A"
      [] OTHER -> s

\* String.prototype.length; the strings named len<N> have N characters
StrLen(s) ==
    CASE s = "" -> 0
      [] s = " " -> 1
      [] s = " A " -> 3
      [] s = "len51" -> 51
      [] s = "len100" -> 100
      [] s = "len101" -> 101
      [] s = "len200" -> 200
      [] s = "len201" -> 201
      [] OTHER -> 2

\* /[\x00-\x1F\x7F]/.test(s); "A<0x07>" is the string with a BEL character
HasControlChar(s) == s \in {"A<0x07>"}

\* !isNaN(new Date(v).getTime()) for the timestamps of the model
DateParses(v) == v \in {"t1", "t2", "1899-12-31", "1999-06-01", "2101-01-01"}

\* new Date(v).getFullYear(); "t1" is the current time, "t2" a day of 2024
DateYear(v) ==
    CASE v = "1899-12-31" -> 1899
      [] v = "1999-06-01" -> 1999
      [] v = "2101-01-01" -> 2101
      [] v = "t2" -> 2024
      [] OTHER -> 2026

\* new Date().toISOString() at the time a record is created by the app
Now == "t1"

\* Array.prototype.findIndex, 1-based; 0 when no element passes the test
FindIndex(s, Test(_)) ==
    IF \E i \in 1..Len(s) : Test(s[i])
    THEN CHOOSE i \in 1..Len(s) : Test(s[i]) /\ \A j \in 1..(i - 1) : ~Test(s[j])
    ELSE 0

\* Array.prototype.map
Map(s, F(_)) == [i \in 1..Len(s) |-> F(s[i])]

----------------------------------------------------------------------------
(* models.js *)

\* Order.isValid applied to new Order(id, name, createdAt)
OrderIsValid(o) ==
    /\ Truthy(o.id) /\ IsString(o.id)
    /\ Truthy(o.name) /\ IsString(o.name) /\ Trim(o.name) # ""
    /\ Truthy(o.createdAt) /\ DateParses(o.createdAt)

\* Activity.isValid applied to new Activity(id, name, orderId, createdAt)
ActivityIsValid(a) ==
    /\ Truthy(a.id) /\ IsString(a.id)
    /\ Truthy(a.name) /\ IsString(a.name) /\ Trim(a.name) # ""
    /\ Truthy(a.orderId) /\ IsString(a.orderId)
    /\ Truthy(a.createdAt) /\ DateParses(a.createdAt)

\* the Order constructor's default parameter: createdAt = now when undefined
DefaultCreatedAt(c) == IF c = UNDEFINED THEN Now ELSE c

----------------------------------------------------------------------------
(* repository.js *)

\* DataRepository.getAllOrders: Order.fromJSON copies of the stored orders
GetAllOrders(st) ==
    Map(st.orders, LAMBDA o : [id |-> o.id, name |-> o.name,
                               createdAt |-> DefaultCreatedAt(o.createdAt)])

\* DataRepository.getAllActivities
GetAllActivities(st) ==
    Map(st.activities, LAMBDA a : [id |-> a.id, name |-> a.name, orderId |-> a.orderId,
                                   createdAt |-> DefaultCreatedAt(a.createdAt)])

\* mutant of UpdateOrder: the update object loses its createdAt
UpdateOrder_DropsCreatedAt(st, id, name, createdAt) ==
    LET index == FindIndex(st.orders, LAMBDA o : o.id = id) IN
    IF index = 0 THEN st
    ELSE [st EXCEPT !.orders[index] =
              [id |-> @.id, name |-> name, createdAt |-> @.createdAt]]

\* DataRepository.updateOrder(id, {name, createdAt}); save() keeps data as is
UpdateOrder(st, id, name, createdAt) ==
    LET index == FindIndex(st.orders, LAMBDA o : o.id = id) IN
    IF index = 0 THEN st
    ELSE [st EXCEPT !.orders[index] =
              [id |-> @.id, name |-> name, createdAt |-> createdAt]]

\* DataRepository.updateActivity(id, {name, orderId, createdAt})
UpdateActivity(st, id, name, orderId, createdAt) ==
    LET index == FindIndex(st.activities, LAMBDA a : a.id = id) IN
    IF index = 0 THEN st
    ELSE [st EXCEPT !.activities[index] =
              [id |-> @.id, name |-> name, orderId |-> orderId, createdAt |-> createdAt]]

----------------------------------------------------------------------------
(* integration-test.js : ImportService, duplicate detection *)

\* the `existing` of one batch order: first stored order with the same id or name
ExistingOrderIndex(existingOrders, importOrder) ==
    FindIndex(existingOrders,
              LAMBDA order : order.id = importOrder.id \/ order.name = importOrder.name)

\* mutant of ExistingActivityIndex: the name matches whatever the orderId
ExistingActivityIndex_AnyOrder(existingActivities, importActivity) ==
    FindIndex(existingActivities,
              LAMBDA activity :
                  \/ activity.id = importActivity.id
                  \/ activity.name = importActivity.name)

\* the `existing` of one batch activity: same id, or same orderId and name
ExistingActivityIndex(existingActivities, importActivity) ==
    FindIndex(existingActivities,
              LAMBDA activity :
                  \/ activity.id = importActivity.id
                  \/ (activity.orderId = importActivity.orderId
                      /\ activity.name = importActivity.name))

\* ImportService.checkDuplicates
CheckDuplicates(st, data) ==
    LET existingOrders == GetAllOrders(st)
        existingActivities == GetAllActivities(st)
        dupO == SelectSeq(data.orders,
                          LAMBDA o : ExistingOrderIndex(existingOrders, o) # 0)
        dupA == SelectSeq(data.activities,
                          LAMBDA a : ExistingActivityIndex(existingActivities, a) # 0)
        entryO(o) ==
            LET existing == existingOrders[ExistingOrderIndex(existingOrders, o)] IN
            [import |-> o, existing |-> existing,
             type |-> IF existing.id = o.id THEN "id" ELSE "name"]
        entryA(a) ==
            LET existing == existingActivities[ExistingActivityIndex(existingActivities, a)] IN
            [import |-> a, existing |-> existing,
             type |-> IF existing.id = a.id THEN "id" ELSE "name"]
    IN  [hasDuplicates |-> Len(dupO) > 0 \/ Len(dupA) > 0,
         duplicateOrders |-> Map(dupO, entryO),
         duplicateActivities |-> Map(dupA, entryA)]

----------------------------------------------------------------------------
(* integration-test.js : ImportService, reconciliation *)

\* ImportService.createOrderForImport: [ok, store]
\* mutant of CreateOrderForImport: the stored ids are not looked up
CreateOrderForImport_NoIdLookup(st, orderData) ==
    LET order == [id |-> orderData.id, name |-> Trim(orderData.name),
                  createdAt |-> DefaultCreatedAt(orderData.createdAt)]
    IN  IF ~Truthy(orderData.name) \/ ~IsString(orderData.name) \/ Trim(orderData.name) = ""
        THEN [ok |-> FALSE, store |-> st]
        ELSE IF ~OrderIsValid(order)
        THEN [ok |-> FALSE, store |-> st]
        ELSE [ok |-> TRUE, store |-> [st EXCEPT !.orders = Append(@, order)]]

CreateOrderForImport(st, orderData) ==
    LET order == [id |-> orderData.id, name |-> Trim(orderData.name),
                  createdAt |-> DefaultCreatedAt(orderData.createdAt)]
    IN  IF ~Truthy(orderData.name) \/ ~IsString(orderData.name) \/ Trim(orderData.name) = ""
        THEN [ok |-> FALSE, store |-> st]
        ELSE IF \E i \in 1..Len(st.orders) : st.orders[i].id = orderData.id
        THEN [ok |-> FALSE, store |-> st]
        ELSE IF ~OrderIsValid(order)
        THEN [ok |-> FALSE, store |-> st]
        ELSE [ok |-> TRUE, store |-> [st EXCEPT !.orders = Append(@, order)]]

\* mutant of CreateActivityForImport: the referenced order is looked up among
\* the stored activities instead of the stored orders
CreateActivityForImport_LooksUpActivities(st, activityData) ==
    LET activity == [id |-> activityData.id, name |-> Trim(activityData.name),
                     orderId |-> activityData.orderId,
                     createdAt |-> DefaultCreatedAt(activityData.createdAt)]
    IN  IF ~Truthy(activityData.name) \/ ~IsString(activityData.name)
           \/ Trim(activityData.name) = ""
        THEN [ok |-> FALSE, store |-> st]
        ELSE IF ~Truthy(activityData.orderId)
        THEN [ok |-> FALSE, store |-> st]
        ELSE IF ~\E i \in 1..Len(st.activities) : st.activities[i].id = activityData.orderId
        THEN [ok |-> FALSE, store |-> st]
        ELSE IF \E i \in 1..Len(st.activities) : st.activities[i].id = activityData.id
        THEN [ok |-> FALSE, store |-> st]
        ELSE IF ~ActivityIsValid(activity)
        THEN [ok |-> FALSE, store |-> st]
        ELSE [ok |-> TRUE, store |-> [st EXCEPT !.activities = Append(@, activity)]]

\* ImportService.createActivityForImport: [ok, store]
CreateActivityForImport(st, activityData) ==
    LET activity == [id |-> activityData.id, name |-> Trim(activityData.name),
                     orderId |-> activityData.orderId,
                     createdAt |-> DefaultCreatedAt(activityData.createdAt)]
    IN  IF ~Truthy(activityData.name) \/ ~IsString(activityData.name)
           \/ Trim(activityData.name) = ""
        THEN [ok |-> FALSE, store |-> st]
        ELSE IF ~Truthy(activityData.orderId)
        THEN [ok |-> FALSE, store |-> st]
        ELSE IF ~\E i \in 1..Len(st.orders) : st.orders[i].id = activityData.orderId
        THEN [ok |-> FALSE, store |-> st]
        ELSE IF \E i \in 1..Len(st.activities) : st.activities[i].id = activityData.id
        THEN [ok |-> FALSE, store |-> st]
        ELSE IF ~ActivityIsValid(activity)
        THEN [ok |-> FALSE, store |-> st]
        ELSE [ok |-> TRUE, store |-> [st EXCEPT !.activities = Append(@, activity)]]

\* the local `result` of importOrders / importActivities
EmptyLoopResult == [created |-> 0, skipped |-> 0, updated |-> 0, errors |-> <<>>]

\* const duplicateIds = new Set(duplicates.map(dup => dup.import.id))
DuplicateIds(duplicates) == {duplicates[i].import.id : i \in 1..Len(duplicates)}

\* duplicates.find(dup => dup.import.id === record.id)
FindDuplicate(duplicates, id) ==
    duplicates[FindIndex(duplicates, LAMBDA dup : dup.import.id = id)]

\* mutant of ImportOrdersIteration: the "skip" case writes the incoming fields
\* before counting the record as skipped
ImportOrdersIteration_SkipWrites(st, r, order, duplicates, duplicateHandling) ==
    IF order.id \in DuplicateIds(duplicates)
    THEN LET duplicate == FindDuplicate(duplicates, order.id) IN
         CASE duplicateHandling = "overwrite" ->
                 [store |-> UpdateOrder(st, order.id, order.name, order.createdAt),
                  result |-> [r EXCEPT !.updated = @ + 1],
                  outcome |-> "updated"]
           [] duplicateHandling = "merge" ->
                 [store |-> UpdateOrder(st, order.id, duplicate.existing.name,
                                        duplicate.existing.createdAt),
                  result |-> [r EXCEPT !.updated = @ + 1],
                  outcome |-> "updated"]
           [] OTHER ->
                 [store |-> UpdateOrder(st, order.id, order.name, order.createdAt),
                  result |-> [r EXCEPT !.skipped = @ + 1],
                  outcome |-> "skipped"]
    ELSE LET c == CreateOrderForImport(st, order) IN
         IF c.ok
         THEN [store |-> c.store,
               result |-> [r EXCEPT !.created = @ + 1],
               outcome |-> "created"]
         ELSE [store |-> c.store,
               result |-> [r EXCEPT !.errors =
                               Append(@, [entity |-> "order", name |-> order.name])],
               outcome |-> "error"]

\* one iteration of the for-loop of ImportService.importOrders:
\* [store, result, outcome]
ImportOrdersIteration(st, r, order, duplicates, duplicateHandling) ==
    IF order.id \in DuplicateIds(duplicates)
    THEN LET duplicate == FindDuplicate(duplicates, order.id) IN
         CASE duplicateHandling = "overwrite" ->
                 [store |-> UpdateOrder(st, order.id, order.name, order.createdAt),
                  result |-> [r EXCEPT !.updated = @ + 1],
                  outcome |-> "updated"]
           [] duplicateHandling = "merge" ->
                 [store |-> UpdateOrder(st, order.id, duplicate.existing.name,
                                        duplicate.existing.createdAt),
                  result |-> [r EXCEPT !.updated = @ + 1],
                  outcome |-> "updated"]
           [] OTHER ->
                 [store |-> st,
                  result |-> [r EXCEPT !.skipped = @ + 1],
                  outcome |-> "skipped"]
    ELSE LET c == CreateOrderForImport(st, order) IN
         IF c.ok
         THEN [store |-> c.store,
               result |-> [r EXCEPT !.created = @ + 1],
               outcome |-> "created"]
         ELSE [store |-> c.store,
               result |-> [r EXCEPT !.errors =
                               Append(@, [entity |-> "order", name |-> order.name])],
               outcome |-> "error"]

\* one iteration of the for-loop of ImportService.importActivities
\* mutant of ImportActivitiesIteration: a creation that fails leaves no error
ImportActivitiesIteration_FailureUnreported(st, r, activity, duplicates, duplicateHandling) ==
    IF activity.id \in DuplicateIds(duplicates)
    THEN LET duplicate == FindDuplicate(duplicates, activity.id) IN
         CASE duplicateHandling = "overwrite" ->
                 [store |-> UpdateActivity(st, activity.id, activity.name,
                                           activity.orderId, activity.createdAt),
                  result |-> [r EXCEPT !.updated = @ + 1],
                  outcome |-> "updated"]
           [] duplicateHandling = "merge" ->
                 [store |-> UpdateActivity(st, activity.id, duplicate.existing.name,
                                           duplicate.existing.orderId,
                                           duplicate.existing.createdAt),
                  result |-> [r EXCEPT !.updated = @ + 1],
                  outcome |-> "updated"]
           [] OTHER ->
                 [store |-> st,
                  result |-> [r EXCEPT !.skipped = @ + 1],
                  outcome |-> "skipped"]
    ELSE LET c == CreateActivityForImport(st, activity) IN
         IF c.ok
         THEN [store |-> c.store,
               result |-> [r EXCEPT !.created = @ + 1],
               outcome |-> "created"]
         ELSE [store |-> c.store,
               result |-> r,
               outcome |-> "error"]

ImportActivitiesIteration(st, r, activity, duplicates, duplicateHandling) ==
    IF activity.id \in DuplicateIds(duplicates)
    THEN LET duplicate == FindDuplicate(duplicates, activity.id) IN
         CASE duplicateHandling = "overwrite" ->
                 [store |-> UpdateActivity(st, activity.id, activity.name,
                                           activity.orderId, activity.createdAt),
                  result |-> [r EXCEPT !.updated = @ + 1],
                  outcome |-> "updated"]
           [] duplicateHandling = "merge" ->
                 [store |-> UpdateActivity(st, activity.id, duplicate.existing.name,
                                           duplicate.existing.orderId,
                                           duplicate.existing.createdAt),
                  result |-> [r EXCEPT !.updated = @ + 1],
                  outcome |-> "updated"]
           [] OTHER ->
                 [store |-> st,
                  result |-> [r EXCEPT !.skipped = @ + 1],
                  outcome |-> "skipped"]
    ELSE LET c == CreateActivityForImport(st, activity) IN
         IF c.ok
         THEN [store |-> c.store,
               result |-> [r EXCEPT !.created = @ + 1],
               outcome |-> "created"]
         ELSE [store |-> c.store,
               result |-> [r EXCEPT !.errors =
                               Append(@, [entity |-> "activity", name |-> activity.name])],
               outcome |-> "error"]

\* const duplicateHandling = options.duplicateHandling || 'skip'
DuplicateHandling(opts) ==
    IF Truthy(opts.duplicateHandling) THEN opts.duplicateHandling ELSE "skip"

\* the `result` object executeImport starts from
InitialResult ==
    [success |-> TRUE, newOrders |-> 0, newActivities |-> 0,
     skippedOrders |-> 0, skippedActivities |-> 0,
     updatedOrders |-> 0, updatedActivities |-> 0, errors |-> <<>>]

----------------------------------------------------------------------------
(* integration-test.js : ImportService, JSON schema validation *)

(* A parsed document is a record                                           *)
(*   [root, orders, activities, version, exportedAt, metadata, extra]      *)
(* root is the kind of the root value; orders and activities are           *)
(* [kind, items] with kind "absent" when the key is missing; version and   *)
(* exportedAt are JavaScript values with UNDEFINED for a missing key;      *)
(* metadata and extra tell if the key "metadata" / an unknown key is       *)
(* present.  A nested order is [kind, id, name, createdAt, activities,     *)
(* extra], a nested activity [kind, id, name, createdAt, orderId, extra].  *)

\* concatenation of a sequence of sequences (errors.push(...more))
RECURSIVE ConcatAll(_)
ConcatAll(ss) == IF ss = <<>> THEN <<>> ELSE Head(ss) \o ConcatAll(Tail(ss))

\* a message of validateJSONSchema and its stages
SchemaError(stage, code, field, index, sub) ==
    [stage |-> stage, code |-> code, field |-> field, index |-> index, sub |-> sub]

\* { isValid, errors } of a stage that is valid when it found no error
StageResult(errors) == [isValid |-> errors = <<>>, errors |-> errors]

\* Object.keys(data)
Keys(data) ==
    {k \in {"orders", "activities", "version", "exportedAt", "metadata", "extra"} :
        \/ k = "orders" /\ data.orders.kind # "absent"
        \/ k = "activities" /\ data.activities.kind # "absent"
        \/ k = "version" /\ data.version # UNDEFINED
        \/ k = "exportedAt" /\ data.exportedAt # UNDEFINED
        \/ k = "metadata" /\ data.metadata
        \/ k = "extra" /\ data.extra}

\* value && Array.isArray(value)
IsArray(value) == value.kind = "array"

ValidateRootStructure(data) ==
    IF data.root \in {"null", "undefined"}
    THEN [isValid |-> FALSE, errors |-> <<SchemaError("structure", "rootNullOrUndefined", "", -1, -1)>>]
    ELSE IF data.root \in {"string", "number"}
    THEN [isValid |-> FALSE, errors |-> <<SchemaError("structure", "rootNotObject", "", -1, -1)>>]
    ELSE IF data.root = "array"
    THEN [isValid |-> FALSE, errors |-> <<SchemaError("structure", "rootIsArray", "", -1, -1)>>]
    ELSE IF Keys(data) = {}
    THEN [isValid |-> FALSE, errors |-> <<SchemaError("structure", "rootEmpty", "", -1, -1)>>]
    ELSE [isValid |-> TRUE, errors |-> <<>>]

\* Object.keys(data).filter(key => !allowedProperties.includes(key))
UnexpectedProperties(data) == Keys(data) \ {"orders", "version", "metadata", "exportedAt"}

\* the warning about unexpected top-level keys is set on the result of
\* validateRequiredProperties; its field names the unexpected keys
ValidateRequiredProperties(data) ==
    [isValid |-> IsArray(data.orders),
     errors |-> IF data.orders.kind = "absent"
                THEN <<SchemaError("properties", "missing", "orders", -1, -1)>>
                ELSE IF ~IsArray(data.orders)
                THEN <<SchemaError("properties", "notArray", "orders", -1, -1)>>
                ELSE <<>>,
     warnings |-> IF UnexpectedProperties(data) # {}
                  THEN <<SchemaError("properties", "unexpected",
                                     UnexpectedProperties(data), -1, -1)>>
                  ELSE <<>>]

\* the loop over requiredFields of the schema checks of one record
RequiredFieldErrors(item, fields, index, sub) ==
    ConcatAll([f \in 1..Len(fields) |->
        IF item[fields[f]] = UNDEFINED
        THEN <<SchemaError("dataTypes", "missing", fields[f], index, sub)>>
        ELSE IF ~IsString(item[fields[f]])
        THEN <<SchemaError("dataTypes", "notString", fields[f], index, sub)>>
        ELSE <<>>])

\* called with a parentPrefix for every activity nested in an order
ValidateActivitySchemaTypes(activity, actIndex, index) ==
    IF activity.kind # "object"
    THEN <<SchemaError("dataTypes", "notObject", "", index, actIndex)>>
    ELSE RequiredFieldErrors(activity, <<"id", "name">>, index, actIndex)

ValidateNestedOrderSchemaTypes(order, index) ==
    IF order.kind # "object"
    THEN <<SchemaError("dataTypes", "notObject", "", index, -1)>>
    ELSE RequiredFieldErrors(order, <<"id", "name">>, index, -1)
         \o (IF order.activities.kind = "absent"
             THEN <<>>
             ELSE IF ~IsArray(order.activities)
             THEN <<SchemaError("dataTypes", "notArray", "activities", index, -1)>>
             ELSE ConcatAll([a \in 1..Len(order.activities.items) |->
                     ValidateActivitySchemaTypes(order.activities.items[a], a - 1, index)]))

ValidateSchemaDataTypes(data) ==
    StageResult(
            (IF IsArray(data.orders)
             THEN ConcatAll([i \in 1..Len(data.orders.items) |->
                     ValidateNestedOrderSchemaTypes(data.orders.items[i], i - 1)])
             ELSE <<>>)
            \o (IF data.version # UNDEFINED /\ ~IsString(data.version)
                THEN <<SchemaError("dataTypes", "notString", "version", -1, -1)>>
                ELSE <<>>)
            \o (IF data.exportedAt # UNDEFINED /\ ~IsString(data.exportedAt)
                THEN <<SchemaError("dataTypes", "notString", "exportedAt", -1, -1)>>
                ELSE <<>>))

\* reading a property of a null element of an array raises a TypeError
ThrowsOnProperty(value) ==
    IsArray(value) /\ \E i \in 1..Len(value.items) : value.items[i].kind = "null"

\* value && value.length > limit, for the value of a string field
LongerThan(v, limit) == Truthy(v) /\ IsString(v) /\ StrLen(v) > limit

OrderStringErrors(order, index) ==
    IF order.kind # "object" THEN <<>>
    ELSE (IF LongerThan(order.id, 100)
          THEN <<SchemaError("constraints", "tooLong", "id", index, -1)>> ELSE <<>>)
      \o (IF LongerThan(order.name, 200)
          THEN <<SchemaError("constraints", "tooLong", "name", index, -1)>> ELSE <<>>)

ActivityStringErrors(activity, index) ==
    IF activity.kind # "object" THEN <<>>
    ELSE (IF LongerThan(activity.id, 100)
          THEN <<SchemaError("constraints", "tooLong", "activity.id", index, -1)>> ELSE <<>>)
      \o (IF LongerThan(activity.name, 200)
          THEN <<SchemaError("constraints", "tooLong", "activity.name", index, -1)>> ELSE <<>>)
      \o (IF LongerThan(activity.orderId, 100)
          THEN <<SchemaError("constraints", "tooLong", "activity.orderId", index, -1)>>
          ELSE <<>>)

\* the two forEach loops of validateStringConstraints, when neither throws
ValidateStringConstraints(data) ==
    StageResult(
        (IF IsArray(data.orders)
         THEN ConcatAll([i \in 1..Len(data.orders.items) |->
                 OrderStringErrors(data.orders.items[i], i - 1)])
         ELSE <<>>)
        \o (IF IsArray(data.activities)
            THEN ConcatAll([i \in 1..Len(data.activities.items) |->
                    ActivityStringErrors(data.activities.items[i], i - 1)])
            ELSE <<>>))

\* the size and count limits (10 MB, 10000 orders, 50000 activities) are out
\* of reach of the documents of the model; a TypeError of
\* validateStringConstraints is caught and reported as one error
ValidateSchemaConstraints(data) ==
    StageResult(
        IF ThrowsOnProperty(data.orders) \/ ThrowsOnProperty(data.activities)
        THEN <<SchemaError("constraints", "exception", "", -1, -1)>>
        ELSE ValidateStringConstraints(data).errors)

SupportedVersion == "1.0.0"

ValidateSchemaVersion(data) ==
    [isValid |-> TRUE,
     warnings |->
        IF data.version # UNDEFINED
        THEN IF data.version # SupportedVersion
             THEN <<SchemaError("version", "different", "version", -1, -1)>>
             ELSE <<>>
        ELSE <<SchemaError("version", "notSpecified", "version", -1, -1)>>]

\* the stages of validateJSONSchema that follow a valid root structure;
\* validateSchemaConstraints and generatePerformanceWarnings give no warning
\* below 1000 records
\* validateJSONSchema copies the errors of validateRequiredProperties and
\* the warnings of the constraint and version stages
SchemaStages(data) ==
    [isValid |-> /\ ValidateRequiredProperties(data).isValid
                 /\ ValidateSchemaDataTypes(data).isValid
                 /\ ValidateSchemaConstraints(data).isValid,
     errors |-> ValidateRequiredProperties(data).errors
                \o ValidateSchemaDataTypes(data).errors
                \o ValidateSchemaConstraints(data).errors,
     warnings |-> ValidateSchemaVersion(data).warnings]

\* mutant of ValidateJSONSchema: an invalid root structure does not end the validation
ValidateJSONSchema_NoEarlyReturn(data) ==
    [isValid |-> /\ ValidateRootStructure(data).isValid
                 /\ SchemaStages([data EXCEPT !.root = "object"]).isValid,
     errors |-> ValidateRootStructure(data).errors
                \o SchemaStages([data EXCEPT !.root = "object"]).errors,
     warnings |-> SchemaStages([data EXCEPT !.root = "object"]).warnings]

ValidateJSONSchema(data) ==
    IF ~ValidateRootStructure(data).isValid
    THEN [isValid |-> FALSE, errors |-> ValidateRootStructure(data).errors, warnings |-> <<>>]
    ELSE SchemaStages(data)

----------------------------------------------------------------------------
(* integration-test.js : ImportService, record validation and integrity *)

\* a message about one flat record (stage "record") or about the whole
\* batch (stage "integrity"); same shape as the schema messages
RecordError(type, code, index) ==
    [stage |-> "record", code |-> code, field |-> type, index |-> index, sub |-> -1]
IntegrityMessage(code, subject, index, sub) ==
    [stage |-> "integrity", code |-> code, field |-> subject, index |-> index, sub |-> sub]

ValidateId(id) ==
    /\ Truthy(id) /\ IsString(id)
    /\ StrLen(Trim(id)) # 0
    /\ StrLen(Trim(id)) <= 100
    /\ ~HasControlChar(Trim(id))

ValidateName(name) ==
    /\ Truthy(name) /\ IsString(name)
    /\ StrLen(Trim(name)) # 0
    /\ StrLen(Trim(name)) <= 100

ValidateDateTime(dateTime) ==
    /\ Truthy(dateTime) /\ IsString(dateTime)
    /\ DateParses(dateTime)
    /\ DateYear(dateTime) >= 1900 /\ DateYear(dateTime) <= 2100

\* expectedProperties of validateDataTypes
ExpectedProperties(type) ==
    IF type = "order" THEN {"id", "name", "createdAt"}
    ELSE {"id", "name", "orderId", "createdAt"}

\* the items are the flat records built by convertNestedToFlat, which are
\* objects, so the structure branch adds nothing; the keys of an item are
\* the fields of its record
ValidateDataTypes(item, type, index) ==
    (IF ~ValidateId(item.id) THEN <<RecordError(type, "id", index)>> ELSE <<>>)
    \o (IF ~ValidateName(item.name) THEN <<RecordError(type, "name", index)>> ELSE <<>>)
    \o (IF ~ValidateDateTime(item.createdAt)
        THEN <<RecordError(type, "createdAt", index)>> ELSE <<>>)
    \o (IF type = "activity" /\ ~ValidateId(item.orderId)
        THEN <<RecordError(type, "orderId", index)>> ELSE <<>>)
    \o (IF DOMAIN item \ ExpectedProperties(type) # {}
        THEN <<RecordError(type, "unexpected", index)>> ELSE <<>>)

\* `${prefix}${index}`, the text put in place of a falsy id or name
Generated(prefix, index) == prefix \o ToString(index)

\* value || fallback
OrElse(value, fallback) == IF Truthy(value) THEN value ELSE fallback

\* the positions of a sequence, in order
Positions(s) == [i \in 1..Len(s) |-> i]

\* positions of the elements a forEach of convertNestedToFlat does not skip
\* (`!item || typeof item !== 'object'`)
KeptPositions(items) ==
    SelectSeq(Positions(items), LAMBDA i : items[i].kind \in {"object", "array"})

FlatOrder(order, index) ==
    [id |-> OrElse(order.id, Generated("generated_order_", index)),
     name |-> OrElse(order.name, Generated("order name ", index)),
     createdAt |-> OrElse(order.createdAt, Now)]

FlatActivity(activity, flatOrderId, index, actIndex) ==
    [id |-> OrElse(activity.id,
                   Generated(Generated("generated_activity_", index) \o "_", actIndex)),
     name |-> OrElse(activity.name, Generated("activity name ", actIndex)),
     orderId |-> flatOrderId,
     createdAt |-> OrElse(activity.createdAt, Now)]

\* nested activities of one order, flattened under the id of the flat order
FlatActivities(order, flatOrderId, index) ==
    IF ~IsArray(order.activities) THEN <<>>
    ELSE [k \in 1..Len(KeptPositions(order.activities.items)) |->
            FlatActivity(order.activities.items[KeptPositions(order.activities.items)[k]],
                         flatOrderId, index,
                         KeptPositions(order.activities.items)[k] - 1)]

\* the orders at the kept positions, with their 0-based index in the document
KeptOrders(items) ==
    [k \in 1..Len(KeptPositions(items)) |->
        [order |-> items[KeptPositions(items)[k]], index |-> KeptPositions(items)[k] - 1]]

FlatDataOf(kept) ==
    [orders |-> [k \in 1..Len(kept) |-> FlatOrder(kept[k].order, kept[k].index)],
     activities |-> ConcatAll([k \in 1..Len(kept) |->
            FlatActivities(kept[k].order, FlatOrder(kept[k].order, kept[k].index).id,
                           kept[k].index)])]

\* top-level activities of the document are not read
ConvertNestedToFlat(nestedData) ==
    IF ~IsArray(nestedData.orders) THEN [orders |-> <<>>, activities |-> <<>>]
    ELSE FlatDataOf(KeptOrders(nestedData.orders.items))

\* mutant of ActivitiesByOrder: every order gets the activities of all orders
ActivitiesByOrder_AllActivities(activities, orderId) ==
    [k \in 1..Len(activities) |->
        [id |-> activities[k].id, name |-> activities[k].name,
         createdAt |-> activities[k].createdAt]]

\* activitiesByOrder.get(orderId) || []: the activities filed under an order
\* id, in the sequence of the flat list, without their orderId
ActivitiesByOrder(activities, orderId) ==
    [k \in 1..Len(SelectSeq(activities, LAMBDA a : a.orderId = orderId)) |->
        [id |-> SelectSeq(activities, LAMBDA a : a.orderId = orderId)[k].id,
         name |-> SelectSeq(activities, LAMBDA a : a.orderId = orderId)[k].name,
         createdAt |-> SelectSeq(activities, LAMBDA a : a.orderId = orderId)[k].createdAt]]

\* the flat data handed to convertFlatToNested hold two arrays
ConvertFlatToNested(flatData) ==
    [orders |->
        [i \in 1..Len(flatData.orders) |->
            [id |-> flatData.orders[i].id,
             name |-> flatData.orders[i].name,
             createdAt |-> flatData.orders[i].createdAt,
             activities |-> ActivitiesByOrder(flatData.activities, flatData.orders[i].id)]]]

\* no conversion has run
NoConversion == [flat |-> [orders |-> <<>>, activities |-> <<>>], nested |-> [orders |-> <<>>]]

\* String.prototype.toLowerCase for the names of the model
ToLowerCase(s) ==
    CASE s = "A" -> "a"
      [] s = "B" -> "b"
      [] s = "X" -> "x"
      [] s = "Y" -> "y"
      [] OTHER -> s

\* positions (1-based) of the keys that were seen at an earlier position
Repeats(keys) ==
    SelectSeq(Positions(keys), LAMBDA i : \E j \in 1..(i - 1) : keys[j] = keys[i])

\* mutant of FirstWith: the latest earlier position holding the key (the map
\* entry is overwritten at every repeat)
FirstWith_LatestEarlier(keys, i) ==
    CHOOSE j \in 1..(i - 1) :
        keys[j] = keys[i] /\ \A h \in (j + 1)..(i - 1) : keys[h] # keys[i]

\* first position holding the key of position i
FirstWith(keys, i) ==
    CHOOSE j \in 1..i : keys[j] = keys[i] /\ \A h \in 1..(j - 1) : keys[h] # keys[i]

\* one entry of duplicateAnalysis per repeated id
DuplicateInfos(ids, repeats) ==
    [k \in 1..Len(repeats) |->
        [id |-> ids[repeats[k]],
         indices |-> <<FirstWith(ids, repeats[k]) - 1, repeats[k] - 1>>,
         severity |-> "error"]]

IdsIn(records) == [i \in 1..Len(records) |-> records[i].id]

IdDuplicateResult(orderIds, activityIds) ==
    [isValid |-> orderIds = <<>> /\ activityIds = <<>>,
     errors |->
        (IF Len(orderIds) > 0
         THEN <<IntegrityMessage("duplicateIds", "order", Len(orderIds), -1)>> ELSE <<>>)
        \o (IF Len(activityIds) > 0
            THEN <<IntegrityMessage("duplicateIds", "activity", Len(activityIds), -1)>>
            ELSE <<>>),
     orderIds |-> orderIds,
     activityIds |-> activityIds]

AnalyzeIdDuplicates(orders, activities) ==
    IdDuplicateResult(DuplicateInfos(IdsIn(orders), Repeats(IdsIn(orders))),
                      DuplicateInfos(IdsIn(activities), Repeats(IdsIn(activities))))

\* mutant of Orphans: an order of the repository counts as an order of the batch
Orphans_ConsultsStore(orders, activities) ==
    SelectSeq(Positions(activities),
              LAMBDA i : /\ Truthy(activities[i].orderId)
                         /\ \A j \in 1..Len(orders) : orders[j].id # activities[i].orderId
                         /\ \A j \in 1..Len(store.orders) :
                               store.orders[j].id # activities[i].orderId)

\* positions of the activities whose orderId names no order of the batch
Orphans(orders, activities) ==
    SelectSeq(Positions(activities),
              LAMBDA i : /\ Truthy(activities[i].orderId)
                         /\ \A j \in 1..Len(orders) : orders[j].id # activities[i].orderId)

RelationshipResult(activities, orphans) ==
    [isValid |-> orphans = <<>>,
     errors |->
        IF Len(orphans) > 0
        THEN <<IntegrityMessage("orphanedActivities", "activity", Len(orphans), -1)>>
             \o [k \in 1..Len(orphans) |->
                    IntegrityMessage("orphanedActivity", "activity", orphans[k] - 1, -1)]
        ELSE <<>>,
     orphanedActivities |->
        [k \in 1..Len(orphans) |->
            [index |-> orphans[k] - 1,
             activityId |-> activities[orphans[k]].id,
             activityName |-> activities[orphans[k]].name,
             missingOrderId |-> activities[orphans[k]].orderId,
             severity |-> "error"]]]

\* the warning about orders without activities stays in the result of
\* analyzeRelationships and is not read by validateDataIntegrity
AnalyzeRelationships(orders, activities) ==
    RelationshipResult(activities, Orphans(orders, activities))

\* one warning per repeated name
NameWarnings(type, keys, repeats) ==
    [k \in 1..Len(repeats) |->
        IntegrityMessage("duplicateName", type, FirstWith(keys, repeats[k]) - 1,
                         repeats[k] - 1)]

OrderNameKeys(orders) == [i \in 1..Len(orders) |-> ToLowerCase(Trim(orders[i].name))]
ActivityNameKeys(activities) ==
    [i \in 1..Len(activities) |->
        <<activities[i].orderId, ToLowerCase(Trim(activities[i].name))>>]

AnalyzeNameDuplicates(orders, activities) ==
    [warnings |->
        NameWarnings("order", OrderNameKeys(orders), Repeats(OrderNameKeys(orders)))
        \o NameWarnings("activity", ActivityNameKeys(activities),
                        Repeats(ActivityNameKeys(activities)))]

\* new Date(v) lies before 2000-01-01 or more than a year after now
DateOutOfRange(v) == v \in {"1899-12-31", "1999-06-01", "2101-01-01"}

\* !v || v.trim().length === 0
Blank(v) == ~Truthy(v) \/ StrLen(Trim(v)) = 0

EmptyWarnings(records, type) ==
    ConcatAll([i \in 1..Len(records) |->
        (IF Blank(records[i].name)
         THEN <<IntegrityMessage("emptyName", type, i - 1, -1)>> ELSE <<>>)
        \o (IF Blank(records[i].id)
            THEN <<IntegrityMessage("emptyId", type, i - 1, -1)>> ELSE <<>>)])

LongNameWarnings(records, type) ==
    ConcatAll([i \in 1..Len(records) |->
        IF Truthy(records[i].name) /\ StrLen(records[i].name) > 50
        THEN <<IntegrityMessage("longName", type, i - 1, -1)>> ELSE <<>>])

DateWarnings(records, type) ==
    ConcatAll([i \in 1..Len(records) |->
        IF Truthy(records[i].createdAt) /\ DateOutOfRange(records[i].createdAt)
        THEN <<IntegrityMessage("oddDate", type, i - 1, -1)>> ELSE <<>>])

AnalyzeDataQuality(orders, activities) ==
    [warnings |->
        EmptyWarnings(orders, "order") \o EmptyWarnings(activities, "activity")
        \o LongNameWarnings(orders, "order") \o LongNameWarnings(activities, "activity")
        \o DateWarnings(orders, "order") \o DateWarnings(activities, "activity")]

Max(a, b) == IF a > b THEN a ELSE b
Min(a, b) == IF a < b THEN a ELSE b

\* mutant of CalculateIntegrityScore: the score is not clamped
CalculateIntegrityScore_Unclamped(integrityResult) ==
    100 - Len(integrityResult.errors) * 10
        - Len(integrityResult.warnings) * 2
        - Len(integrityResult.orphanedActivities) * 5
        - Len(integrityResult.duplicateAnalysis.orderIds) * 8
        - Len(integrityResult.duplicateAnalysis.activityIds) * 8

CalculateIntegrityScore(integrityResult) ==
    Max(0, Min(100,
        100 - Len(integrityResult.errors) * 10
            - Len(integrityResult.warnings) * 2
            - Len(integrityResult.orphanedActivities) * 5
            - Len(integrityResult.duplicateAnalysis.orderIds) * 8
            - Len(integrityResult.duplicateAnalysis.activityIds) * 8))

\* steps 1 to 5 of validateDataIntegrity; checkCircularReferences finds nothing
IntegrityFindings(idDuplicateResult, relationshipResult, nameWarnings, qualityWarnings) ==
    [isValid |-> idDuplicateResult.isValid /\ relationshipResult.isValid,
     errors |-> idDuplicateResult.errors \o relationshipResult.errors,
     warnings |-> nameWarnings \o qualityWarnings,
     orphanedActivities |-> relationshipResult.orphanedActivities,
     duplicateAnalysis |-> idDuplicateResult,
     integrityScore |-> 0]

\* mutant of WithIntegrityScore: the score is computed before the warnings
\* of steps 3 and 4 are in the result
WithIntegrityScore_BeforeWarnings(integrityResult) ==
    [integrityResult EXCEPT
        !.integrityScore =
            CalculateIntegrityScore([integrityResult EXCEPT !.warnings = <<>>])]

\* step 6 of validateDataIntegrity
WithIntegrityScore(integrityResult) ==
    [integrityResult EXCEPT !.integrityScore = CalculateIntegrityScore(integrityResult)]

ValidateDataIntegrity(orders, activities) ==
    WithIntegrityScore(
        IntegrityFindings(AnalyzeIdDuplicates(orders, activities),
                          AnalyzeRelationships(orders, activities),
                          AnalyzeNameDuplicates(orders, activities).warnings,
                          AnalyzeDataQuality(orders, activities).warnings))

\* the result object validateDataIntegrity starts from
NoIntegrity ==
    IntegrityFindings(IdDuplicateResult(<<>>, <<>>), RelationshipResult(<<>>, <<>>),
                      <<>>, <<>>)

NoFlattenedData == [orders |-> <<>>, activities |-> <<>>]

\* no call of validateImportData has returned yet
NoValidation ==
    [isValid |-> FALSE, errors |-> <<>>, warnings |-> <<>>,
     hasFlattenedData |-> FALSE, flattenedData |-> NoFlattenedData]

\* the two forEach loops of validateImportData over the flat records
RecordErrorsOf(flattenedData) ==
    ConcatAll([i \in 1..Len(flattenedData.orders) |->
        ValidateDataTypes(flattenedData.orders[i], "order", i - 1)])
    \o ConcatAll([i \in 1..Len(flattenedData.activities) |->
        ValidateDataTypes(flattenedData.activities[i], "activity", i - 1)])

\* validateImportData once the schema is found valid; hasFlattenedData tells
\* if the result carries the key flattenedData
ValidatedResult(schemaWarnings, flattenedData, recordErrors, integrityResult) ==
    [isValid |-> recordErrors = <<>> /\ integrityResult.isValid,
     errors |-> recordErrors
                \o (IF ~integrityResult.isValid THEN integrityResult.errors ELSE <<>>),
     warnings |-> schemaWarnings \o integrityResult.warnings,
     hasFlattenedData |-> TRUE,
     flattenedData |-> flattenedData]

ValidateFlattened(schemaWarnings, flattenedData) ==
    ValidatedResult(schemaWarnings, flattenedData, RecordErrorsOf(flattenedData),
                    ValidateDataIntegrity(flattenedData.orders, flattenedData.activities))

SchemaFailure(schemaResult) ==
    [isValid |-> FALSE,
     errors |-> schemaResult.errors,
     warnings |-> schemaResult.warnings,
     hasFlattenedData |-> FALSE,
     flattenedData |-> NoFlattenedData]

ValidateImportData(data) ==
    IF ~ValidateJSONSchema(data).isValid
    THEN SchemaFailure(ValidateJSONSchema(data))
    ELSE ValidateFlattened(ValidateJSONSchema(data).warnings, ConvertNestedToFlat(data))

----------------------------------------------------------------------------
(* import-error-handler.js : ImportErrorHandler *)

\* an error that carries no processedError
NoProcessedError ==
    [type |-> UNDEFINED, title |-> UNDEFINED, solution |-> UNDEFINED, severity |-> UNDEFINED]

\* errorMessages.get(errorType): every type of the taxonomy has a title, a
\* solution and the severity "error"
ErrorInfo(errorType) ==
    [title |-> "title of " \o errorType,
     solution |-> "solution of " \o errorType,
     severity |-> "error"]

\* the keywords of classifyError found in error.message, for each error the
\* entry points raise: the two file checks, the FileReader failure, the
\* SyntaxError text of parseJSON; the other messages hold none of them
MessageKeywords(what) ==
    CASE what = "fileFormat" -> {"file format"}
      [] what = "fileSize" -> {"file size"}
      [] what = "parse" -> {"json"}
      [] OTHER -> {}

ClassifyError(keywords) ==
    IF "file format" \in keywords THEN "FILE_FORMAT_ERROR"
    ELSE IF "file size" \in keywords THEN "FILE_SIZE_ERROR"
    ELSE IF keywords \cap {"json", "parse"} # {} THEN "JSON_PARSE_ERROR"
    ELSE IF keywords \cap {"data format", "schema"} # {} THEN "SCHEMA_VALIDATION_ERROR"
    ELSE IF keywords \cap {"duplicate", "integrity", "relation"} # {}
         THEN "DATA_INTEGRITY_ERROR"
    ELSE IF keywords \cap {"storage", "save"} # {} THEN "STORAGE_ERROR"
    ELSE IF keywords \cap {"network", "connection"} # {} THEN "NETWORK_ERROR"
    ELSE IF "import" \in keywords THEN "IMPORT_EXECUTION_ERROR"
    ELSE "UNKNOWN_ERROR"

HandleError(keywords) ==
    [type |-> ClassifyError(keywords),
     title |-> ErrorInfo(ClassifyError(keywords)).title,
     solution |-> ErrorInfo(ClassifyError(keywords)).solution,
     severity |-> ErrorInfo(ClassifyError(keywords)).severity]

\* validationResult.orphanedActivities; a result without the key has none
OrphanedActivitiesOf(validationResult) ==
    IF "orphanedActivities" \in DOMAIN validationResult
    THEN validationResult.orphanedActivities
    ELSE <<>>

\* the texts with one of the words of hasStructuralErrors: the root type,
\* a missing required property, a value that has to be an array
IsStructuralText(error) ==
    \/ error.stage = "structure" /\ error.code = "rootNotObject"
    \/ error.stage = "properties" /\ error.code \in {"missing", "notArray"}
    \/ error.stage = "dataTypes" /\ error.code = "notArray"

\* the texts with one of the words of hasIntegrityErrors: duplicate ids and
\* references to an order that does not exist
IsIntegrityText(error) ==
    /\ error.stage = "integrity"
    /\ error.code \in {"duplicateIds", "orphanedActivities", "orphanedActivity"}

ClassifyValidationError(validationResult) ==
    IF Len(validationResult.errors) = 0 THEN "UNKNOWN_ERROR"
    ELSE IF \E i \in 1..Len(validationResult.errors) :
                IsStructuralText(validationResult.errors[i])
         THEN "SCHEMA_VALIDATION_ERROR"
    ELSE IF \E i \in 1..Len(validationResult.errors) :
                IsIntegrityText(validationResult.errors[i])
         THEN "DATA_INTEGRITY_ERROR"
    ELSE "SCHEMA_VALIDATION_ERROR"

DetermineValidationSeverity(validationResult) ==
    IF Len(validationResult.errors) = 0
    THEN (IF Len(validationResult.warnings) > 0 THEN "warning" ELSE "info")
    ELSE IF Len(OrphanedActivitiesOf(validationResult)) > 0 THEN "error"
    ELSE IF Len(validationResult.errors) >= 10 THEN "error"
    ELSE IF Len(validationResult.errors) >= 5 THEN "error"
    ELSE "warning"

\* errorInfo.solution with the advice on orphaned activities appended
GenerateValidationSolution(validationResult, errorInfo) ==
    IF Len(OrphanedActivitiesOf(validationResult)) > 0
    THEN errorInfo.solution \o " and advice on orphaned activities"
    ELSE errorInfo.solution

HandleValidationError(validationResult) ==
    [type |-> ClassifyValidationError(validationResult),
     title |-> ErrorInfo(ClassifyValidationError(validationResult)).title,
     solution |-> GenerateValidationSolution(validationResult,
                      ErrorInfo(ClassifyValidationError(validationResult))),
     severity |-> DetermineValidationSeverity(validationResult)]

----------------------------------------------------------------------------
(* repository.js : sessions; timer.js : TimerService *)

\* repository.data before any session was created
NoSessions == [sessions |-> <<>>, currentSession |-> NULL]

\* null where a session is expected
NoSession == [id |-> NULL, activityId |-> NULL, startTime |-> NULL, endTime |-> NULL]

\* new TimerService(repository)
NewTimerService == [currentSession |-> NoSession, timerInterval |-> FALSE]

\* no method of TimerService has been called yet; generated counts the ids
\* generateId('session_') has handed out
NoTimerCall ==
    [activityId |-> UNDEFINED, previousSession |-> NoSession, returned |-> FALSE,
     generated |-> 0]

\* generateId('session_'): the time of the call and a random suffix
SessionId(n) == "session_" \o ToString(n)

\* data.sessions.findIndex(session => session.id === id), 0 for -1
SessionIndex(sessions, id) ==
    IF \E i \in 1..Len(sessions) : sessions[i].id = id
    THEN CHOOSE i \in 1..Len(sessions) :
            /\ sessions[i].id = id
            /\ \A j \in 1..(i - 1) : sessions[j].id # id
    ELSE 0

\* mutant of EndSession: the session is left without an end time
EndSession_LeavesRunning(sessions, index) == sessions

\* DataRepository.endSession(id) for a session found at index: session.end()
EndSession(sessions, index) == [sessions EXCEPT ![index].endTime = Now]

\* TimerService.stopWork() on a running session; an id that endSession does
\* not find makes it throw, and the catch clears the timer all the same
StopRunning(tm, data) ==
    IF SessionIndex(data.sessions, tm.currentSession.id) = 0
    THEN [timer |-> NewTimerService, data |-> data, returned |-> FALSE]
    ELSE [timer |-> NewTimerService,
          data |-> [sessions |-> EndSession(data.sessions,
                                    SessionIndex(data.sessions, tm.currentSession.id)),
                    currentSession |-> NULL],
          returned |-> TRUE]

\* TimerService.stopWork()
StopWork(tm, data) ==
    IF tm.currentSession = NoSession
    THEN [timer |-> tm, data |-> data, returned |-> FALSE]
    ELSE StopRunning(tm, data)

\* startWork up to createSession: the checks of the id and of the activity
ActivityFound(activityId) ==
    /\ Truthy(activityId) /\ IsString(activityId)
    /\ \E i \in 1..Len(store.activities) : store.activities[i].id = activityId

\* createSession refuses an activity that has a session without end time
ExistingActiveSession(sessions, activityId) ==
    \E i \in 1..Len(sessions) :
        sessions[i].activityId = activityId /\ sessions[i].endTime = NULL

NewSession(n, activityId) ==
    [id |-> SessionId(n), activityId |-> activityId, startTime |-> Now, endTime |-> NULL]

----------------------------------------------------------------------------
(* Inputs of the model *)

\* ids handed out by generateId, in the order they are handed out
OrderIdPool == <<"o1", "o2", "o3">>
ActivityIdPool == <<"a1", "a2", "a3">>

OrderNames == {"A", "B"}
ActivityNames == {"X", "Y"}

SeqsUpTo(S, n) == UNION {[1..k -> S] : k \in 0..n}

\* orders and activities a caller can hand to executeImport
BatchOrders ==
    [id : {"o1", "o2"}, name : {"A"}, createdAt : {"t2"}]
BatchActivities ==
    [id : {"a1", "a2"}, name : {"X"}, orderId : {"o1"}, createdAt : {"t2"}]

Batches ==
    [orders : SeqsUpTo(BatchOrders, MaxBatchOrders),
     activities : SeqsUpTo(BatchActivities, MaxBatchActivities)]

\* values of a key that may hold an array
AbsentArray == [kind |-> "absent", items |-> <<>>]
NonArrayValue(kind) == [kind |-> kind, items |-> <<>>]
ArrayValue(items) == [kind |-> "array", items |-> items]

\* an array element that is null
NullActivity ==
    [kind |-> "null", id |-> UNDEFINED, name |-> UNDEFINED, createdAt |-> UNDEFINED,
     orderId |-> UNDEFINED, extra |-> FALSE]
NullOrder ==
    [kind |-> "null", id |-> UNDEFINED, name |-> UNDEFINED, createdAt |-> UNDEFINED,
     activities |-> AbsentArray, extra |-> FALSE]

\* activities nested in an order of a document
DocActivities ==
    {NullActivity} \cup
    [kind : {"object"}, id : {"a1"}, name : {"X"}, createdAt : {UNDEFINED},
     orderId : {UNDEFINED}, extra : {FALSE}]

\* values of the key activities of an order of a document
NestedValues ==
    {AbsentArray, NonArrayValue("string")} \cup
    {ArrayValue(s) : s \in SeqsUpTo(DocActivities, MaxNestedActivities)}

\* orders of a document
DocOrders ==
    {NullOrder} \cup
    [kind : {"object"}, id : {"o1", "o2", UNDEFINED}, name : {"A", " "},
     createdAt : {UNDEFINED}, activities : NestedValues, extra : {FALSE}]

\* the object {}
EmptyObject ==
    [root |-> "object", orders |-> AbsentArray, activities |-> AbsentArray,
     version |-> UNDEFINED, exportedAt |-> UNDEFINED, metadata |-> FALSE, extra |-> FALSE]

ValidOrder ==
    [kind |-> "object", id |-> "o1", name |-> "A", createdAt |-> "t2",
     activities |-> AbsentArray, extra |-> FALSE]
LongIdActivity ==
    [kind |-> "object", id |-> "len101", name |-> "X", createdAt |-> "t2",
     orderId |-> "o1", extra |-> FALSE]

\* documents whose root is not an object
RootDocs ==
    {[EmptyObject EXCEPT !.root = r] : r \in {"array", "null", "undefined", "string", "number"}}

\* objects that differ in their top-level keys
TopLevelDocs ==
    [root : {"object"},
     orders : {AbsentArray, NonArrayValue("null"), NonArrayValue("string"),
               NonArrayValue("number"), NonArrayValue("object"),
               ArrayValue(<<>>), ArrayValue(<<ValidOrder>>), ArrayValue(<<NullOrder>>)},
     activities : {AbsentArray, NonArrayValue("string"),
                   ArrayValue(<<LongIdActivity>>), ArrayValue(<<NullActivity>>)},
     version : {UNDEFINED, SupportedVersion, "0.9.0", NUMBER},
     exportedAt : {UNDEFINED, "t2", NUMBER},
     metadata : BOOLEAN,
     extra : BOOLEAN]

\* objects that differ in their orders
RecordDocs ==
    {[EmptyObject EXCEPT !.orders = ArrayValue(s), !.version = SupportedVersion] :
        s \in SeqsUpTo(DocOrders, MaxDocOrders)}

\* an activity with the required fields of a nested activity
NestedActivity ==
    [kind |-> "object", id |-> "a1", name |-> "X", createdAt |-> UNDEFINED,
     orderId |-> UNDEFINED, extra |-> FALSE]

\* documents of one order with one nested activity, where the order, the
\* activity or both carry a property outside the expected fields
ExtraPropertyDocs ==
    {[EmptyObject EXCEPT
        !.orders = ArrayValue(<<[ValidOrder EXCEPT
            !.extra = e[1],
            !.activities = ArrayValue(<<[NestedActivity EXCEPT !.extra = e[2]]>>)]>>),
        !.version = SupportedVersion] : e \in BOOLEAN \X BOOLEAN}

\* an activity of the top-level activities of a flat-form document
FlatFormActivity(orderId) ==
    [kind |-> "object", id |-> "a1", name |-> "X", createdAt |-> "t2",
     orderId |-> orderId, extra |-> FALSE]

\* flat-form documents: one top-level order o1 and one top-level activity
\* that names the order o1 or an order that is not in the document
FlatFormDocs ==
    {[EmptyObject EXCEPT
        !.orders = ArrayValue(<<ValidOrder>>),
        !.activities = ArrayValue(<<FlatFormActivity(orderId)>>),
        !.version = SupportedVersion] : orderId \in {"o1", "o9"}}

\* documents of one order with one nested activity, where the order and the
\* activity have or omit their id and their createdAt
OmittedFieldDocs ==
    {[EmptyObject EXCEPT
        !.orders = ArrayValue(<<[ValidOrder EXCEPT
            !.id = f[1], !.createdAt = f[2],
            !.activities = ArrayValue(<<[NestedActivity EXCEPT
                !.id = f[3], !.createdAt = f[4]]>>)]>>),
        !.version = SupportedVersion] :
     f \in {"o1", UNDEFINED} \X {"t2", UNDEFINED} \X {"a1", UNDEFINED} \X {"t2", UNDEFINED}}

\* names of 1, 100, 101, 200 and 201 characters
NameLengths == {"A", "len100", "len101", "len200", "len201"}

\* documents of the valid order o1 followed by an order o2 with one nested
\* activity, the names of o2 and of its activity running over the lengths
LongNameDocs ==
    {[EmptyObject EXCEPT
        !.orders = ArrayValue(<<ValidOrder, [ValidOrder EXCEPT
            !.id = "o2", !.name = n[1],
            !.activities = ArrayValue(<<[NestedActivity EXCEPT !.name = n[2]]>>)]>>),
        !.version = SupportedVersion] : n \in NameLengths \X NameLengths}

\* documents handed to validateImportData
\* documents of one order with one activity where the id and the name of
\* the order, or those of the activity, are the empty string, a blank, a
\* text with the character 0x07, or a text that begins with a tab
OddTexts == {"", " ", "A<0x07>", "<0x09>A"}
OddTextDocs ==
    {[EmptyObject EXCEPT
        !.orders = ArrayValue(<<[ValidOrder EXCEPT
            !.id = t[1], !.name = t[2],
            !.activities = ArrayValue(<<NestedActivity>>)]>>),
        !.version = SupportedVersion] :
            t \in ({"o1"} \cup OddTexts) \X ({"A"} \cup OddTexts)}
    \cup
    {[EmptyObject EXCEPT
        !.orders = ArrayValue(<<[ValidOrder EXCEPT
            !.activities = ArrayValue(<<[NestedActivity EXCEPT
                !.id = t[1], !.name = t[2]]>>)]>>),
        !.version = SupportedVersion] :
            t \in ({"a1"} \cup OddTexts) \X ({"X"} \cup OddTexts)}

Docs ==
    RootDocs \cup TopLevelDocs \cup RecordDocs \cup ExtraPropertyDocs \cup FlatFormDocs
    \cup OmittedFieldDocs \cup LongNameDocs \cup OddTextDocs

\* an activity nested in an order of a document handed to importFromJSON
JsonActivity ==
    [kind |-> "object", id |-> "a1", name |-> "X", createdAt |-> UNDEFINED,
     orderId |-> UNDEFINED, extra |-> FALSE]

\* orders of the documents handed to importFromJSON: well-formed ones, and one
\* whose name is blank
JsonOrders ==
    [kind : {"object"}, id : {"o1", "o2"}, name : {"A"}, createdAt : {UNDEFINED},
     activities : {AbsentArray, ArrayValue(<<JsonActivity>>)}, extra : {FALSE}]
    \cup {[ValidOrder EXCEPT !.name = " "]}

\* the text handed to importFromJSON: not JSON, or the JSON of a document
SyntaxError == [parses |-> FALSE, data |-> EmptyObject]
JsonTexts ==
    {SyntaxError} \cup
    {[parses |-> TRUE, data |-> d] :
        d \in {[EmptyObject EXCEPT !.root = "array"], EmptyObject}
              \cup {[EmptyObject EXCEPT !.orders = ArrayValue(s)] :
                        s \in SeqsUpTo(JsonOrders, MaxDocOrders)}}

\* the file handed to importFromFile: none, or a File with a name, a MIME
\* type ("" when the browser knows none), a size in bytes, and the text a
\* FileReader gets from it unless reading fails
NoFile ==
    [given |-> FALSE, name |-> UNDEFINED, type |-> UNDEFINED, size |-> 0,
     readable |-> FALSE, content |-> SyntaxError]
GivenFile ==
    [given |-> TRUE, name |-> "data.json", type |-> "application/json", size |-> 1024,
     readable |-> TRUE, content |-> SyntaxError]
Files ==
    {NoFile}
    \cup {[GivenFile EXCEPT !.name = n, !.type = t] :
            n \in {"data.json", "DATA.JSON", "data.txt"}, t \in {"", "text/plain", "image/png"}}
    \cup {[GivenFile EXCEPT !.size = sz] : sz \in {10 * 1024 * 1024, 10 * 1024 * 1024 + 1}}
    \cup {[GivenFile EXCEPT !.readable = FALSE]}
    \cup {[GivenFile EXCEPT !.content = json] : json \in JsonTexts}

\* the options argument: omitted, or an object with or without duplicateHandling
NoOptions == [given |-> FALSE, duplicateHandling |-> UNDEFINED]
OptionValues ==
    {NoOptions} \cup
    [given : {TRUE}, duplicateHandling : {UNDEFINED, "skip", "overwrite", "merge"}]

\* the store as it was after its first no orders and na activities were created
EarlierStore(st, no, na) ==
    [orders |-> SubSeq(st.orders, 1, no), activities |-> SubSeq(st.activities, 1, na)]

\* flat orders and activities handed to validateDataIntegrity; the order o9
\* is in no batch, the orderId "" is the empty string, the name len51 has 51
\* characters
IntegrityOrders == [id : {"o1", "o2"}, name : {"A", "len51"}, createdAt : {"t2"}]
IntegrityActivities ==
    [id : {"a1", "a2"}, name : {"X"}, orderId : {"o1", "o9", ""}, createdAt : {"t2"}]
IntegrityBatches ==
    {[orders |-> o, activities |-> a] :
        o \in SeqsUpTo(IntegrityOrders, MaxIntegrityOrders),
        a \in SeqsUpTo(IntegrityActivities, MaxIntegrityActivities)}

\* the repository while validateDataIntegrity runs: empty, or holding the
\* order o9
IntegrityStores ==
    {[orders |-> <<>>, activities |-> <<>>],
     [orders |-> <<[id |-> "o9", name |-> "B", createdAt |-> "t1"]>>, activities |-> <<>>]}

\* activities nested in an order handed to convertNestedToFlat: with an id,
\* without one, or with an id that reads like a generated one
ConvertActivities ==
    [kind : {"object"}, id : {"a1", UNDEFINED, "generated_activity_1_0"}, name : {"X"},
     createdAt : {UNDEFINED}, orderId : {UNDEFINED}, extra : {FALSE}]

\* orders handed to convertNestedToFlat
ConvertOrders ==
    [kind : {"object"}, id : {"o1", UNDEFINED, "generated_order_1"}, name : {"A"},
     createdAt : {UNDEFINED},
     activities : {AbsentArray} \cup
                  {ArrayValue(a) : a \in SeqsUpTo(ConvertActivities, MaxConvertActivities)},
     extra : {FALSE}]

\* the document of the conversion test: one order with two activities
TwoActivitiesDoc ==
    [EmptyObject EXCEPT !.orders = ArrayValue(<<[ValidOrder EXCEPT
        !.activities = ArrayValue(<<NestedActivity, [NestedActivity EXCEPT !.id = "a2"]>>)]>>)]

\* nested documents handed to convertNestedToFlat
ConvertDocs ==
    {TwoActivitiesDoc} \cup
    {[EmptyObject EXCEPT !.orders = ArrayValue(o)] :
        o \in SeqsUpTo(ConvertOrders, MaxConvertOrders)}

----------------------------------------------------------------------------
(* State machine *)

EmptyBatch == [orders |-> <<>>, activities |-> <<>>]
EmptyStore == [orders |-> <<>>, activities |-> <<>>]

Init ==
    /\ store = EmptyStore
    /\ pc = "idle"
    /\ importData = EmptyBatch
    /\ duplicateCheck = CheckDuplicates(EmptyStore, EmptyBatch)
    /\ options = NoOptions
    /\ idx = 0
    /\ loopResult = EmptyLoopResult
    /\ result = InitialResult
    /\ storeBefore = EmptyStore
    /\ outcomes = <<>>
    /\ entry = "none"
    /\ jsonData = EmptyObject
    /\ validation = NoValidation
    /\ thrown = "none"
    /\ integrity = NoIntegrity
    /\ converted = NoConversion
    /\ processedError = NoProcessedError
    /\ sessionStore = NoSessions
    /\ timer = NewTimerService
    /\ timerCall = NoTimerCall

\* generateId(prefix): an id no stored record carries
GenerateId(pool, records) ==
    pool[FindIndex(pool, LAMBDA id : \A i \in 1..Len(records) : records[i].id # id)]

\* DataRepository.createOrder(name); a rejected call throws and changes nothing
CreateOrder(name) ==
    /\ pc = "idle"
    /\ Truthy(name) /\ IsString(name) /\ Trim(name) # ""
    /\ ~\E i \in 1..Len(store.orders) : store.orders[i].name = Trim(name)
    /\ store' = [store EXCEPT !.orders =
                     Append(@, [id |-> GenerateId(OrderIdPool, store.orders),
                                name |-> Trim(name), createdAt |-> Now])]
    /\ UNCHANGED <<pc, importData, duplicateCheck, options, idx, loopResult,
                   result, storeBefore, outcomes>>
    /\ UNCHANGED <<entry, jsonData, validation, thrown, integrity, converted,
                   processedError, sessionStore, timer, timerCall>>

\* DataRepository.createActivity(name, orderId)
CreateActivity(name, orderId) ==
    /\ pc = "idle"
    /\ Len(store.activities) < MaxStoreActivities
    /\ Truthy(name) /\ IsString(name) /\ Trim(name) # ""
    /\ Truthy(orderId) /\ IsString(orderId)
    /\ \E i \in 1..Len(store.orders) : store.orders[i].id = orderId
    /\ ~\E i \in 1..Len(store.activities) :
           store.activities[i].orderId = orderId /\ store.activities[i].name = Trim(name)
    /\ store' = [store EXCEPT !.activities =
                     Append(@, [id |-> GenerateId(ActivityIdPool, store.activities),
                                name |-> Trim(name), orderId |-> orderId,
                                createdAt |-> Now])]
    /\ UNCHANGED <<pc, importData, duplicateCheck, options, idx, loopResult,
                   result, storeBefore, outcomes>>
    /\ UNCHANGED <<entry, jsonData, validation, thrown, integrity, converted,
                   processedError, sessionStore, timer, timerCall>>

\* ImportService.executeImport(importData, duplicateCheck, options), up to the call
\* of importOrders; options.duplicateHandling of an omitted options argument throws
\* a TypeError, which the outer catch turns into a failed result
ExecuteImport(batch, dc, opts) ==
    /\ pc = "idle"
    /\ importData' = batch
    /\ duplicateCheck' = dc
    /\ options' = opts
    /\ storeBefore' = store
    /\ outcomes' = <<>>
    /\ loopResult' = EmptyLoopResult
    /\ IF opts.given
       THEN /\ result' = InitialResult
            /\ pc' = "importOrders"
            /\ idx' = 1
       ELSE /\ result' = [InitialResult EXCEPT
                              !.success = FALSE,
                              !.errors = <<[entity |-> "call", name |-> "TypeError"]>>]
            /\ pc' = "done"
            /\ idx' = 0
    /\ UNCHANGED store

\* a caller of executeImport: the duplicate lists come from checkDuplicates, run
\* on the store as it is or (ImportUI caches them after analysing the file) as it
\* was earlier
ExecuteImportCall ==
    /\ pc = "idle"
    /\ \E batch \in Batches, opts \in OptionValues,
          no \in 0..Len(store.orders), na \in 0..Len(store.activities) :
          ExecuteImport(batch, CheckDuplicates(EarlierStore(store, no, na), batch), opts)
    /\ entry' = "executeImport"
    /\ UNCHANGED <<jsonData, validation, thrown, integrity, converted,
                   processedError, sessionStore, timer, timerCall>>

\* importOrders: one iteration of `for (const order of orders)`
ImportOrdersStep ==
    /\ pc = "importOrders"
    /\ idx <= Len(importData.orders)
    /\ LET it == ImportOrdersIteration(store, loopResult, importData.orders[idx],
                                       duplicateCheck.duplicateOrders,
                                       DuplicateHandling(options))
       IN  /\ store' = it.store
           /\ loopResult' = it.result
           /\ outcomes' = Append(outcomes, it.outcome)
    /\ idx' = idx + 1
    /\ UNCHANGED <<pc, importData, duplicateCheck, options, result, storeBefore>>
    /\ UNCHANGED <<entry, jsonData, validation, thrown, integrity, converted,
                   processedError, sessionStore, timer, timerCall>>

\* importOrders returns; executeImport copies its counts and calls importActivities
ImportOrdersReturn ==
    /\ pc = "importOrders"
    /\ idx > Len(importData.orders)
    /\ result' = [result EXCEPT !.newOrders = loopResult.created,
                                !.skippedOrders = loopResult.skipped,
                                !.updatedOrders = loopResult.updated,
                                !.errors = @ \o loopResult.errors]
    /\ loopResult' = EmptyLoopResult
    /\ pc' = "importActivities"
    /\ idx' = 1
    /\ UNCHANGED <<store, importData, duplicateCheck, options, storeBefore, outcomes>>
    /\ UNCHANGED <<entry, jsonData, validation, thrown, integrity, converted,
                   processedError, sessionStore, timer, timerCall>>

\* importActivities: one iteration of `for (const activity of activities)`
ImportActivitiesStep ==
    /\ pc = "importActivities"
    /\ idx <= Len(importData.activities)
    /\ LET it == ImportActivitiesIteration(store, loopResult, importData.activities[idx],
                                           duplicateCheck.duplicateActivities,
                                           DuplicateHandling(options))
       IN  /\ store' = it.store
           /\ loopResult' = it.result
           /\ outcomes' = Append(outcomes, it.outcome)
    /\ idx' = idx + 1
    /\ UNCHANGED <<pc, importData, duplicateCheck, options, result, storeBefore>>
    /\ UNCHANGED <<entry, jsonData, validation, thrown, integrity, converted,
                   processedError, sessionStore, timer, timerCall>>

\* mutant of FinalResult: success is not cleared when errors were collected
FinalResult_KeepsSuccess(r, lr, saveData) ==
    LET r1 == [r EXCEPT !.newActivities = lr.created,
                        !.skippedActivities = lr.skipped,
                        !.updatedActivities = lr.updated,
                        !.errors = @ \o lr.errors]
    IN  IF r1.success /\ saveData = "throws"
        THEN [r1 EXCEPT !.errors = Append(@, [entity |-> "store", name |-> "saveData"]),
                        !.success = FALSE]
        ELSE r1

\* the result executeImport returns once importActivities has returned:
\* saveData is "absent" (the repository has no such method), "ok" or "throws"
FinalResult(r, lr, saveData) ==
    LET r1 == [r EXCEPT !.newActivities = lr.created,
                        !.skippedActivities = lr.skipped,
                        !.updatedActivities = lr.updated,
                        !.errors = @ \o lr.errors]
        r2 == IF Len(r1.errors) > 0 THEN [r1 EXCEPT !.success = FALSE] ELSE r1
    IN  IF r2.success /\ saveData = "throws"
        THEN [r2 EXCEPT !.errors = Append(@, [entity |-> "store", name |-> "saveData"]),
                        !.success = FALSE]
        ELSE r2

\* importActivities returns; executeImport sets success, saves and returns
ExecuteImportReturn(saveData) ==
    /\ pc = "importActivities"
    /\ idx > Len(importData.activities)
    /\ result' = FinalResult(result, loopResult, saveData)
    /\ loopResult' = EmptyLoopResult
    /\ pc' = IF entry \in {"importFromJSON", "importFromFile"}
             THEN "importFromJSON" ELSE "done"
    /\ idx' = 0
    /\ UNCHANGED <<store, importData, duplicateCheck, options, storeBefore, outcomes>>
    /\ UNCHANGED <<entry, jsonData, validation, thrown, integrity, converted,
                   processedError, sessionStore, timer, timerCall>>

\* parseJSON(jsonString): throws when the text is not JSON
ParseJSON(json) == [ok |-> json.parses, data |-> json.data]

\* `options = {}`, the default of the options parameter of importFromJSON
DefaultOptions(opts) ==
    IF opts.given THEN opts ELSE [given |-> TRUE, duplicateHandling |-> UNDEFINED]

\* importFromJSON gives up without touching the batch or the store
ImportFromJSONThrows(what) ==
    /\ thrown' = what
    /\ pc' = "done"
    /\ storeBefore' = store
    /\ outcomes' = <<>>
    /\ UNCHANGED <<store, importData, duplicateCheck, options, idx, loopResult, result>>

\* mutant of ImportValidated: the import goes on whatever isValid says
ImportValidated_IgnoresIsValid(validationResult, opts) ==
    /\ thrown' = "none"
    /\ ExecuteImport(validationResult.flattenedData,
                     CheckDuplicates(store, validationResult.flattenedData),
                     DefaultOptions(opts))

\* importFromJSON from the check of validationResult.isValid on:
\* checkDuplicates on the flat data, then executeImport
ImportValidated(validationResult, opts) ==
    IF ~validationResult.isValid
    THEN ImportFromJSONThrows("validation")
    ELSE /\ thrown' = "none"
         /\ ExecuteImport(validationResult.flattenedData,
                          CheckDuplicates(store, validationResult.flattenedData),
                          DefaultOptions(opts))

\* ImportService.importFromJSON(jsonString, options), up to the call of
\* importOrders inside executeImport
ImportFromJSON(json, opts) ==
    /\ pc = "idle"
    /\ UNCHANGED <<integrity, converted, sessionStore, timer, timerCall>>
    /\ IF ~ParseJSON(json).ok
       THEN /\ ImportFromJSONThrows("parse")
            /\ UNCHANGED <<jsonData, validation>>
       ELSE /\ jsonData' = ParseJSON(json).data
            /\ validation' = ValidateImportData(ParseJSON(json).data)
            /\ ImportValidated(validation', opts)

\* importFromJSON called by the user interface: its catch logs the error and
\* throws it again as it is
ImportFromJSONCall ==
    /\ pc = "idle"
    /\ entry' = "importFromJSON"
    /\ processedError' = NoProcessedError
    /\ \E json \in JsonTexts, opts \in OptionValues : ImportFromJSON(json, opts)

\* validateFileFormat(file): the extension .json and, when the file has a
\* type, one of the three accepted MIME types
ValidateFileFormat(file) ==
    /\ file.given
    /\ file.name \in {"data.json", "DATA.JSON"}
    /\ file.type \in {"", "application/json", "text/json", "text/plain"}

\* validateFileSize(file): at most 10 MB
ValidateFileSize(file) == file.size <= 10 * 1024 * 1024

\* the catch of importFromFile: a validation error goes to
\* handleValidationError, any other error to handleError; the context of
\* both reads file.name, which throws a TypeError when there is no file
CaughtByImportFromFile(file, what) ==
    IF what = "none" THEN "none"
    ELSE IF ~file.given THEN "typeError"
    ELSE what

ProcessedErrorOf(file, what, validationResult) ==
    IF what = "none" \/ ~file.given THEN NoProcessedError
    ELSE IF what = "validation" THEN HandleValidationError(validationResult)
    ELSE HandleError(MessageKeywords(what))

\* importFromFile gives up before importFromJSON is called
ImportFromFileThrows(file, what) ==
    /\ thrown' = CaughtByImportFromFile(file, what)
    /\ processedError' = ProcessedErrorOf(file, what, validation)
    /\ pc' = "done"
    /\ storeBefore' = store
    /\ outcomes' = <<>>
    /\ UNCHANGED <<store, importData, duplicateCheck, options, idx, loopResult, result,
                   jsonData, validation, integrity, converted, sessionStore, timer,
                   timerCall>>

\* ImportService.importFromFile(file, options), up to the call of
\* importOrders inside executeImport
ImportFromFile(file, opts) ==
    /\ pc = "idle"
    /\ entry' = "importFromFile"
    /\ IF ~ValidateFileFormat(file) THEN ImportFromFileThrows(file, "fileFormat")
       ELSE IF ~ValidateFileSize(file) THEN ImportFromFileThrows(file, "fileSize")
       ELSE IF ~file.readable THEN ImportFromFileThrows(file, "readFile")
       ELSE /\ ImportFromJSON(file.content, opts)
            /\ processedError' = ProcessedErrorOf(file, thrown', validation')

ImportFromFileCall ==
    /\ pc = "idle"
    /\ \E file \in Files, opts \in OptionValues : ImportFromFile(file, opts)

\* executeImport has returned to importFromJSON, which saves once more when
\* the result is a success and the repository has a saveData method; an
\* exception of that call leaves importFromJSON as it is
ImportFromJSONReturn(saveData) ==
    /\ pc = "importFromJSON"
    /\ thrown' = IF result.success /\ saveData = "throws" THEN "saveData" ELSE "none"
    /\ processedError' = IF entry = "importFromFile"
                         THEN ProcessedErrorOf(GivenFile, thrown', validation)
                         ELSE NoProcessedError
    /\ pc' = "done"
    /\ UNCHANGED <<store, importData, duplicateCheck, options, idx, loopResult,
                   result, storeBefore, outcomes, entry, jsonData, validation,
                   integrity, converted, sessionStore, timer, timerCall>>

Next ==
    \/ \E name \in OrderNames : CreateOrder(name)
    \/ \E name \in ActivityNames, orderId \in {"o1", "o2"} : CreateActivity(name, orderId)
    \/ ExecuteImportCall
    \/ ImportOrdersStep
    \/ ImportOrdersReturn
    \/ ImportActivitiesStep
    \/ \E saveData \in {"absent", "ok", "throws"} : ExecuteImportReturn(saveData)
    \/ ImportFromJSONCall
    \/ \E saveData \in {"absent", "ok", "throws"} : ImportFromJSONReturn(saveData)

Spec == Init /\ [][Next]_vars

\* the two entry points of an import, called on an empty repository
NextFile ==
    \/ ImportFromFileCall
    \/ ImportFromJSONCall
    \/ ImportOrdersStep
    \/ ImportOrdersReturn
    \/ ImportActivitiesStep
    \/ \E saveData \in {"absent", "ok", "throws"} : ExecuteImportReturn(saveData)
    \/ \E saveData \in {"absent", "ok", "throws"} : ImportFromJSONReturn(saveData)

SpecFile == Init /\ [][NextFile]_vars

\* ImportService.validateImportData(data) called on its own
InitValidate ==
    /\ store = EmptyStore
    /\ pc = "idle"
    /\ importData = EmptyBatch
    /\ duplicateCheck = CheckDuplicates(EmptyStore, EmptyBatch)
    /\ options = NoOptions
    /\ idx = 0
    /\ loopResult = EmptyLoopResult
    /\ result = InitialResult
    /\ storeBefore = EmptyStore
    /\ outcomes = <<>>
    /\ entry = "none"
    /\ jsonData \in Docs
    /\ validation = NoValidation
    /\ thrown = "none"
    /\ integrity = NoIntegrity
    /\ converted = NoConversion
    /\ processedError = NoProcessedError
    /\ sessionStore = NoSessions
    /\ timer = NewTimerService
    /\ timerCall = NoTimerCall

ValidateImportDataCall ==
    /\ pc = "idle"
    /\ entry' = "validateImportData"
    /\ validation' = ValidateImportData(jsonData)
    /\ pc' = "done"
    /\ UNCHANGED <<store, importData, duplicateCheck, options, idx, loopResult,
                   result, storeBefore, outcomes, jsonData, thrown, integrity, converted, processedError, sessionStore, timer, timerCall>>

NextValidate == ValidateImportDataCall

SpecValidate == InitValidate /\ [][NextValidate]_vars

\* ImportService.validateDataIntegrity(orders, activities) called on its own
InitIntegrity ==
    /\ store \in IntegrityStores
    /\ pc = "idle"
    /\ importData \in IntegrityBatches
    /\ duplicateCheck = CheckDuplicates(EmptyStore, EmptyBatch)
    /\ options = NoOptions
    /\ idx = 0
    /\ loopResult = EmptyLoopResult
    /\ result = InitialResult
    /\ storeBefore = EmptyStore
    /\ outcomes = <<>>
    /\ entry = "none"
    /\ jsonData = EmptyObject
    /\ validation = NoValidation
    /\ thrown = "none"
    /\ integrity = NoIntegrity
    /\ converted = NoConversion
    /\ processedError = NoProcessedError
    /\ sessionStore = NoSessions
    /\ timer = NewTimerService
    /\ timerCall = NoTimerCall

ValidateDataIntegrityCall ==
    /\ pc = "idle"
    /\ entry' = "validateDataIntegrity"
    /\ integrity' = ValidateDataIntegrity(importData.orders, importData.activities)
    /\ pc' = "done"
    /\ UNCHANGED <<store, importData, duplicateCheck, options, idx, loopResult,
                   result, storeBefore, outcomes, jsonData, validation, thrown,
                   converted, processedError, sessionStore, timer, timerCall>>

NextIntegrity == ValidateDataIntegrityCall

SpecIntegrity == InitIntegrity /\ [][NextIntegrity]_vars

\* convertNestedToFlat and convertFlatToNested applied one after the other
InitConvert ==
    /\ store = EmptyStore
    /\ pc = "idle"
    /\ importData = EmptyBatch
    /\ duplicateCheck = CheckDuplicates(EmptyStore, EmptyBatch)
    /\ options = NoOptions
    /\ idx = 0
    /\ loopResult = EmptyLoopResult
    /\ result = InitialResult
    /\ storeBefore = EmptyStore
    /\ outcomes = <<>>
    /\ entry = "none"
    /\ jsonData \in ConvertDocs
    /\ validation = NoValidation
    /\ thrown = "none"
    /\ integrity = NoIntegrity
    /\ converted = NoConversion
    /\ processedError = NoProcessedError
    /\ sessionStore = NoSessions
    /\ timer = NewTimerService
    /\ timerCall = NoTimerCall

ConvertRoundTripCall ==
    /\ pc = "idle"
    /\ entry' = "convert"
    /\ converted' = [flat |-> ConvertNestedToFlat(jsonData),
                     nested |-> ConvertFlatToNested(ConvertNestedToFlat(jsonData))]
    /\ pc' = "done"
    /\ UNCHANGED <<store, importData, duplicateCheck, options, idx, loopResult,
                   result, storeBefore, outcomes, jsonData, validation, thrown,
                   integrity, processedError, sessionStore, timer, timerCall>>

NextConvert == ConvertRoundTripCall

SpecConvert == InitConvert /\ [][NextConvert]_vars

\* validation results handed to handleValidationError: up to MaxErrors
\* errors of one text, with or without a warning, without the key
\* orphanedActivities, with an empty list, or with one orphaned activity
SeverityErrors ==
    {RecordError("order", "id", 0), IntegrityMessage("duplicateIds", "order", 1, -1)}
SeverityResults ==
    {[errors |-> [i \in 1..n |-> e], warnings |-> w] :
        n \in 0..MaxErrors, e \in SeverityErrors,
        w \in {<<>>, <<IntegrityMessage("longName", "order", 0, -1)>>}}
    \cup
    {[errors |-> [i \in 1..n |-> e], warnings |-> <<>>, orphanedActivities |-> o] :
        n \in 0..MaxErrors, e \in SeverityErrors,
        o \in {<<>>, <<[activityId |-> "a1", activityName |-> "X",
                        missingOrderId |-> "o9"]>>}}

\* ImportErrorHandler.handleValidationError(validationResult) called on its own
InitSeverity ==
    /\ store = EmptyStore
    /\ pc = "idle"
    /\ importData = EmptyBatch
    /\ duplicateCheck = CheckDuplicates(EmptyStore, EmptyBatch)
    /\ options = NoOptions
    /\ idx = 0
    /\ loopResult = EmptyLoopResult
    /\ result = InitialResult
    /\ storeBefore = EmptyStore
    /\ outcomes = <<>>
    /\ entry = "none"
    /\ jsonData = EmptyObject
    /\ validation \in SeverityResults
    /\ thrown = "none"
    /\ integrity = NoIntegrity
    /\ converted = NoConversion
    /\ processedError = NoProcessedError
    /\ sessionStore = NoSessions
    /\ timer = NewTimerService
    /\ timerCall = NoTimerCall

HandleValidationErrorCall ==
    /\ pc = "idle"
    /\ entry' = "handleValidationError"
    /\ processedError' = HandleValidationError(validation)
    /\ pc' = "done"
    /\ UNCHANGED <<store, importData, duplicateCheck, options, idx, loopResult, result,
                   storeBefore, outcomes, jsonData, validation, thrown, integrity,
                   converted, sessionStore, timer, timerCall>>

NextSeverity == HandleValidationErrorCall

SpecSeverity == InitSeverity /\ [][NextSeverity]_vars

\* the repository of the timer: one order with the activities a1 and a2
TimerStore ==
    [orders |-> <<[id |-> "o1", name |-> "A", createdAt |-> Now]>>,
     activities |-> <<[id |-> "a1", name |-> "X", orderId |-> "o1", createdAt |-> Now],
                      [id |-> "a2", name |-> "Y", orderId |-> "o1", createdAt |-> Now]>>]

\* the activityId handed to startWork and switchWork: a stored activity, an
\* unknown one, the empty string, or no string
TimerActivityIds == {"a1", "a2", "a9", "", UNDEFINED}

InitTimer ==
    /\ store = TimerStore
    /\ pc = "idle"
    /\ importData = EmptyBatch
    /\ duplicateCheck = CheckDuplicates(EmptyStore, EmptyBatch)
    /\ options = NoOptions
    /\ idx = 0
    /\ loopResult = EmptyLoopResult
    /\ result = InitialResult
    /\ storeBefore = EmptyStore
    /\ outcomes = <<>>
    /\ entry = "none"
    /\ jsonData = EmptyObject
    /\ validation = NoValidation
    /\ thrown = "none"
    /\ integrity = NoIntegrity
    /\ converted = NoConversion
    /\ processedError = NoProcessedError
    /\ sessionStore = NoSessions
    /\ timer = NewTimerService
    /\ timerCall = NoTimerCall

ImportUntouched ==
    UNCHANGED <<store, importData, duplicateCheck, options, idx, loopResult, result,
                storeBefore, outcomes, jsonData, validation, thrown, integrity, converted,
                processedError>>

\* startWork returns false from its catch
StartWorkFails(op, activityId, stopped) ==
    /\ entry' = op
    /\ pc' = "idle"
    /\ timer' = stopped.timer
    /\ sessionStore' = stopped.data
    /\ timerCall' = [timerCall EXCEPT !.activityId = activityId,
                                      !.previousSession = timer.currentSession,
                                      !.returned = FALSE]

\* startWork has stopped the running session, if there was one, and goes on
\* to createSession
StartWorkGoesOn(op, activityId, stopped) ==
    /\ entry' = op
    /\ pc' = "createSession"
    /\ timer' = stopped.timer
    /\ sessionStore' = stopped.data
    /\ timerCall' = [timerCall EXCEPT !.activityId = activityId,
                                      !.previousSession = timer.currentSession,
                                      !.returned = FALSE]

\* TimerService.startWork(activityId), up to the call of createSession
StartWork(activityId) ==
    /\ pc = "idle"
    /\ timerCall.generated < MaxSessions
    /\ ImportUntouched
    /\ IF ~ActivityFound(activityId)
       THEN StartWorkFails("startWork", activityId,
                           [timer |-> timer, data |-> sessionStore, returned |-> FALSE])
       ELSE IF timer.currentSession # NoSession /\ ~StopWork(timer, sessionStore).returned
       THEN StartWorkFails("startWork", activityId, StopWork(timer, sessionStore))
       ELSE StartWorkGoesOn("startWork", activityId, StopWork(timer, sessionStore))

\* TimerService.switchWork(activityId), up to the call of createSession: it
\* stops the running session whatever stopWork returns, then calls startWork
SwitchWork(activityId) ==
    /\ pc = "idle"
    /\ timerCall.generated < MaxSessions
    /\ ImportUntouched
    /\ IF ~ActivityFound(activityId)
       THEN StartWorkFails("switchWork", activityId, StopWork(timer, sessionStore))
       ELSE StartWorkGoesOn("switchWork", activityId, StopWork(timer, sessionStore))

\* DataRepository.createSession(activityId) and the rest of startWork; the
\* session is pushed before save() is asked, and a save that fails makes
\* createSession throw
CreateSession(saveOk) ==
    /\ pc = "createSession"
    /\ pc' = "idle"
    /\ ImportUntouched
    /\ UNCHANGED entry
    /\ IF ExistingActiveSession(sessionStore.sessions, timerCall.activityId)
       THEN UNCHANGED <<sessionStore, timer, timerCall>>
       ELSE /\ timerCall' = [timerCall EXCEPT !.generated = @ + 1, !.returned = saveOk]
            /\ sessionStore' =
                   [sessions |-> Append(sessionStore.sessions,
                        NewSession(timerCall.generated + 1, timerCall.activityId)),
                    currentSession |-> IF saveOk THEN timerCall.activityId
                                       ELSE sessionStore.currentSession]
            /\ timer' = IF saveOk
                        THEN [currentSession |-> NewSession(timerCall.generated + 1,
                                                            timerCall.activityId),
                              timerInterval |-> TRUE]
                        ELSE timer

\* TimerService.stopWork() called by the user interface
StopWorkCall ==
    /\ pc = "idle"
    /\ ImportUntouched
    /\ entry' = "stopWork"
    /\ UNCHANGED pc
    /\ timer' = StopWork(timer, sessionStore).timer
    /\ sessionStore' = StopWork(timer, sessionStore).data
    /\ timerCall' = [timerCall EXCEPT !.activityId = UNDEFINED,
                                      !.previousSession = timer.currentSession,
                                      !.returned = StopWork(timer, sessionStore).returned]

\* DataRepository.resetSessionsOnly(), whether a session is running or not
ResetSessionsOnly ==
    /\ pc = "idle"
    /\ sessionStore.sessions # <<>>
    /\ ImportUntouched
    /\ sessionStore' = NoSessions
    /\ entry' = "resetSessionsOnly"
    /\ UNCHANGED <<pc, timer, timerCall>>

NextTimer ==
    \/ \E activityId \in TimerActivityIds : StartWork(activityId)
    \/ \E activityId \in TimerActivityIds : SwitchWork(activityId)
    \/ \E saveOk \in BOOLEAN : CreateSession(saveOk)
    \/ StopWorkCall
    \/ ResetSessionsOnly

SpecTimer == InitTimer /\ [][NextTimer]_vars

----------------------------------------------------------------------------
(* Vocabulary of the properties *)

\* the duplicate lists handed to executeImport are those of checkDuplicates on
\* the store the call started from
FreshDuplicateCheck == duplicateCheck = CheckDuplicates(storeBefore, importData)

\* a policy was supplied or defaulted, i.e. the call got past reading the options
Running == pc \in {"importOrders", "importActivities", "done"} /\ options.given

Policy == DuplicateHandling(options)

NumOrders == Len(importData.orders)
NumActivities == Len(importData.activities)

\* the k-th batch order / j-th batch activity has been through its loop iteration
OrderProcessed(k) == k \in 1..NumOrders /\ k <= Len(outcomes)
ActivityProcessed(j) == j \in 1..NumActivities /\ NumOrders + j <= Len(outcomes)

OrderOutcome(k) == outcomes[k]
ActivityOutcome(j) == outcomes[NumOrders + j]

IdsOf(records) == {records[i].id : i \in 1..Len(records)}

\* ids are unique within the batch (the batch invariant of validated input)
BatchIdsUnique ==
    /\ \A k1, k2 \in 1..NumOrders :
           importData.orders[k1].id = importData.orders[k2].id => k1 = k2
    /\ \A j1, j2 \in 1..NumActivities :
           importData.activities[j1].id = importData.activities[j2].id => j1 = j2

CountOrders(o) == Cardinality({k \in 1..NumOrders : OrderProcessed(k) /\ OrderOutcome(k) = o})
CountActivities(o) ==
    Cardinality({j \in 1..NumActivities : ActivityProcessed(j) /\ ActivityOutcome(j) = o})

\* every record that was stored when the call started is stored unchanged
StoredRecordsUnchanged ==
    /\ Len(store.orders) >= Len(storeBefore.orders)
    /\ SubSeq(store.orders, 1, Len(storeBefore.orders)) = storeBefore.orders
    /\ Len(store.activities) >= Len(storeBefore.activities)
    /\ SubSeq(store.activities, 1, Len(storeBefore.activities)) = storeBefore.activities

----------------------------------------------------------------------------
(* Properties *)

\* C1: under policy "skip", with the duplicate lists of checkDuplicates, every
\* processed batch order whose id is the id of an order stored before the run is
\* counted as skipped (not as created or updated; the returned skippedOrders /
\* newOrders / updatedOrders are exactly the numbers of orders so counted), and
\* every order stored before the run keeps all its fields.
C1_SkipCountsAndKeepsStore ==
    (Running /\ Policy = "skip" /\ FreshDuplicateCheck) =>
        /\ \A k \in 1..NumOrders :
               (OrderProcessed(k) /\ importData.orders[k].id \in IdsOf(storeBefore.orders))
                   => OrderOutcome(k) = "skipped"
        /\ Len(store.orders) >= Len(storeBefore.orders)
        /\ SubSeq(store.orders, 1, Len(storeBefore.orders)) = storeBefore.orders
        /\ pc = "done" =>
               /\ result.skippedOrders = CountOrders("skipped")
               /\ result.newOrders = CountOrders("created")
               /\ result.updatedOrders = 0

\* C1 witness: a finished "skip" run that skipped an order with a stored id
C1_Witness ==
    /\ pc = "done" /\ options.given /\ options.duplicateHandling = "skip"
    /\ FreshDuplicateCheck
    /\ \E k \in 1..NumOrders :
           /\ importData.orders[k].id \in IdsOf(storeBefore.orders)
           /\ OrderOutcome(k) = "skipped"
    /\ result.skippedOrders >= 1
    /\ result.newOrders >= 1

\* C2: under policy "overwrite", with the duplicate lists of checkDuplicates and
\* ids unique within the batch, every processed batch order whose id is the id of
\* an order stored before the run is counted as updated (not created, not
\* skipped) and the stored order with that id carries the imported name and
\* createdAt.
C2_OverwriteByIdReplacesFields ==
    (Running /\ Policy = "overwrite" /\ FreshDuplicateCheck /\ BatchIdsUnique) =>
        /\ \A k \in 1..NumOrders :
               (OrderProcessed(k) /\ importData.orders[k].id \in IdsOf(storeBefore.orders))
                   => /\ OrderOutcome(k) = "updated"
                      /\ \E i \in 1..Len(store.orders) :
                             store.orders[i].id = importData.orders[k].id
                      /\ \A i \in 1..Len(store.orders) :
                             store.orders[i].id = importData.orders[k].id
                                 => /\ store.orders[i].name = importData.orders[k].name
                                    /\ store.orders[i].createdAt
                                           = importData.orders[k].createdAt
        /\ pc = "done" =>
               /\ result.updatedOrders = CountOrders("updated")
               /\ result.newOrders = CountOrders("created")
               /\ result.skippedOrders = 0

\* C2 witness: a finished "overwrite" run that changed the name of a stored order
C2_Witness ==
    /\ pc = "done" /\ options.given /\ Policy = "overwrite"
    /\ FreshDuplicateCheck /\ BatchIdsUnique
    /\ result.updatedOrders >= 1
    /\ \E k \in 1..NumOrders, i \in 1..Len(storeBefore.orders) :
           /\ storeBefore.orders[i].id = importData.orders[k].id
           /\ storeBefore.orders[i].name # importData.orders[k].name
           /\ store.orders[i].name = importData.orders[k].name
           /\ store.orders[i].createdAt = "t2"

\* the stored record (before the run) a duplicate entry was matched with
MatchedOrderIndex(dup) == FindIndex(storeBefore.orders, LAMBDA o : o.id = dup.existing.id)
MatchedActivityIndex(dup) ==
    FindIndex(storeBefore.activities, LAMBDA a : a.id = dup.existing.id)

\* no two entries of a duplicate list were matched with the same stored record
MatchesDistinct(duplicates) ==
    \A d1, d2 \in 1..Len(duplicates) :
        duplicates[d1].existing.id = duplicates[d2].existing.id => d1 = d2

\* C3 (as claimed): after an "overwrite" run with the duplicate lists of
\* checkDuplicates, every stored record a batch record was matched with, by id
\* or by name, carries the incoming name and createdAt (and orderId for
\* activities), and every record of the duplicate lists is counted as updated.
C3_OverwriteReplacesMatchedRecord ==
    (/\ pc = "done" /\ options.given /\ Policy = "overwrite"
     /\ FreshDuplicateCheck /\ BatchIdsUnique
     /\ MatchesDistinct(duplicateCheck.duplicateOrders)
     /\ MatchesDistinct(duplicateCheck.duplicateActivities)) =>
        /\ \A d \in 1..Len(duplicateCheck.duplicateOrders) :
               LET dup == duplicateCheck.duplicateOrders[d]
                   m == MatchedOrderIndex(dup)
               IN  /\ store.orders[m].name = dup.import.name
                   /\ store.orders[m].createdAt = dup.import.createdAt
        /\ \A d \in 1..Len(duplicateCheck.duplicateActivities) :
               LET dup == duplicateCheck.duplicateActivities[d]
                   m == MatchedActivityIndex(dup)
               IN  /\ store.activities[m].name = dup.import.name
                   /\ store.activities[m].orderId = dup.import.orderId
                   /\ store.activities[m].createdAt = dup.import.createdAt
        /\ result.updatedOrders = Len(duplicateCheck.duplicateOrders)
        /\ result.updatedActivities = Len(duplicateCheck.duplicateActivities)

\* C4 (as claimed): under policy "merge", with the duplicate lists of
\* checkDuplicates, every record of the duplicate lists is counted as updated and
\* every record stored before the run keeps all its field values.
C4_MergeKeepsStoredRecords ==
    (Running /\ Policy = "merge" /\ FreshDuplicateCheck /\ BatchIdsUnique) =>
        /\ StoredRecordsUnchanged
        /\ pc = "done" =>
               /\ result.updatedOrders = Len(duplicateCheck.duplicateOrders)
               /\ result.updatedActivities = Len(duplicateCheck.duplicateActivities)

\* C5 (as claimed): a call without a policy (options omitted, or options without
\* duplicateHandling) ends as a "skip" call does: every batch order of the
\* duplicate list is counted in skippedOrders, no stored record changes, and a
\* batch made of duplicates only succeeds unless the final save fails.
C5_NoPolicyBehavesAsSkip ==
    (/\ pc = "done" /\ ~Truthy(options.duplicateHandling) /\ FreshDuplicateCheck
     /\ \E k \in 1..NumOrders : importData.orders[k].id \in IdsOf(storeBefore.orders)) =>
        /\ result.skippedOrders =
               Cardinality({k \in 1..NumOrders :
                   importData.orders[k].id \in DuplicateIds(duplicateCheck.duplicateOrders)})
        /\ StoredRecordsUnchanged
        /\ (/\ \A k \in 1..NumOrders :
                   importData.orders[k].id \in DuplicateIds(duplicateCheck.duplicateOrders)
            /\ \A j \in 1..NumActivities :
                   importData.activities[j].id
                       \in DuplicateIds(duplicateCheck.duplicateActivities)
            /\ \A e \in 1..Len(result.errors) : result.errors[e].entity # "store")
               => result.success

\* the orders this run created, and the activity ids taken before activity j
CreatedOrderIds ==
    {importData.orders[k].id : k \in {k1 \in 1..NumOrders :
                                         OrderProcessed(k1) /\ OrderOutcome(k1) = "created"}}
ActivityIdsBefore(j) ==
    IdsOf(storeBefore.activities) \cup {importData.activities[j1].id : j1 \in 1..(j - 1)}

\* C6: the orders loop is over before the activities loop starts (while orders
\* are processed no activity has been, and once an activity is processed every
\* order has been), and a batch activity that is not a duplicate, has a free id
\* and names an order created earlier in the same run is created: counted in
\* newActivities, no error.
C6_OrdersBeforeActivities ==
    /\ pc = "importOrders" => (Len(outcomes) = idx - 1 /\ idx - 1 <= NumOrders)
    /\ pc = "importActivities" => Len(outcomes) = NumOrders + idx - 1
    /\ \A j \in 1..NumActivities : ActivityProcessed(j) => \A k \in 1..NumOrders : OrderProcessed(k)
    /\ Running =>
           \A j \in 1..NumActivities :
               (/\ ActivityProcessed(j)
                /\ importData.activities[j].orderId \in CreatedOrderIds
                /\ importData.activities[j].id
                       \notin DuplicateIds(duplicateCheck.duplicateActivities)
                /\ importData.activities[j].id \notin ActivityIdsBefore(j))
                   => /\ ActivityOutcome(j) = "created"
                      /\ \E i \in 1..Len(store.activities) :
                             /\ store.activities[i].id = importData.activities[j].id
                             /\ store.activities[i].orderId = importData.activities[j].orderId
    /\ (Running /\ pc = "done") =>
           /\ result.newActivities = CountActivities("created")
           /\ Len(result.errors) >= CountActivities("error")

\* C6 witness: a finished run created an order and an activity that names it,
\* and the order was not stored before the run
C6_Witness ==
    /\ pc = "done" /\ options.given
    /\ result.success /\ result.newOrders >= 1 /\ result.newActivities >= 1
    /\ \E j \in 1..NumActivities :
           /\ importData.activities[j].orderId \in CreatedOrderIds
           /\ importData.activities[j].orderId \notin IdsOf(storeBefore.orders)
           /\ ActivityOutcome(j) = "created"

\* the errors of a result that are per-record errors
RecordErrors(errors) == SelectSeq(errors, LAMBDA e : e.entity \in {"order", "activity"})

\* C7: a failed creation appends exactly one error (the per-record errors are as
\* many as the failed records), every record of the batch is processed whatever
\* failed before it, the records created in the run are in the store and in the
\* counts, and success is true exactly when errors is empty.
C7_FailureDoesNotAbort ==
    /\ pc = "importOrders" => Len(loopResult.errors) = CountOrders("error")
    /\ pc = "importActivities" =>
           /\ Len(loopResult.errors) = CountActivities("error")
           /\ Len(result.errors) = CountOrders("error")
    /\ (Running /\ pc = "done") =>
           /\ Len(outcomes) = NumOrders + NumActivities
           /\ Len(RecordErrors(result.errors))
                  = CountOrders("error") + CountActivities("error")
           /\ result.newOrders = CountOrders("created")
           /\ result.newActivities = CountActivities("created")
           /\ Len(store.orders) = Len(storeBefore.orders) + result.newOrders
           /\ Len(store.activities) = Len(storeBefore.activities) + result.newActivities
           /\ \A k \in 1..NumOrders :
                  OrderOutcome(k) = "created"
                      => importData.orders[k].id \in IdsOf(store.orders)
           /\ \A j \in 1..NumActivities :
                  ActivityOutcome(j) = "created"
                      => importData.activities[j].id \in IdsOf(store.activities)
           /\ (CountOrders("error") + CountActivities("error") > 0) => ~result.success
    /\ pc = "done" => (result.success <=> Len(result.errors) = 0)

\* C7 witness: a finished run in which a record was created, a later record
\* failed, and a record after the failed one was still processed and created
C7_Witness ==
    /\ pc = "done" /\ options.given /\ ~result.success
    /\ \E k1, k2, k3 \in 1..Len(outcomes) :
           /\ k1 < k2 /\ k2 < k3
           /\ outcomes[k1] = "created" /\ outcomes[k2] = "error" /\ outcomes[k3] = "created"
    /\ Len(result.errors) = 1

\* C8: when validateImportData reports the document invalid, importFromJSON
\* fails with the validation error and neither duplicate detection nor
\* reconciliation has run: no record was processed, no result was produced and
\* the store is what it was when importFromJSON was called.
C8_InvalidDocumentLeavesStore ==
    (entry = "importFromJSON" /\ thrown # "parse" /\ ~validation.isValid) =>
        /\ pc = "done"
        /\ thrown = "validation"
        /\ store = storeBefore
        /\ outcomes = <<>>
        /\ importData = EmptyBatch
        /\ result = InitialResult

\* C8 witness: importFromJSON has thrown on a document that passed the schema,
\* was flattened into two orders and then found invalid, over a store that
\* already holds an order
C8_Witness ==
    /\ entry = "importFromJSON" /\ pc = "done" /\ thrown = "validation"
    /\ validation.hasFlattenedData
    /\ Len(validation.flattenedData.orders) = 2
    /\ Len(store.orders) > 0

\* validateImportData has returned its result for jsonData
Validated == entry = "validateImportData" /\ pc = "done"

\* the stages of the messages in a list
StagesOf(messages) == {messages[i].stage : i \in 1..Len(messages)}

\* C9: validateImportData of a document whose root is an array is invalid with
\* exactly one error, the root-structure error; nothing of a later stage is in
\* the result: no other error, no warning and no flattened data.
C9_ArrayRootStopsAtStructure ==
    (Validated /\ jsonData.root = "array") =>
        /\ ~validation.isValid
        /\ Len(validation.errors) = 1
        /\ validation.errors[1].stage = "structure"
        /\ validation.errors[1].code = "rootIsArray"
        /\ validation.warnings = <<>>
        /\ ~validation.hasFlattenedData

\* C9 witness: a document with an array root has been validated and rejected
C9_Witness ==
    /\ Validated /\ jsonData.root = "array"
    /\ ~validation.isValid /\ Len(validation.errors) = 1

\* the document is an object whose key orders is missing or holds no array
OrdersMissingOrNotArray ==
    jsonData.root = "object" /\ Keys(jsonData) # {} /\ ~IsArray(jsonData.orders)

\* C10: a document whose orders key is absent or is not an array is invalid and
\* no later stage contributes to the result: every error is the one of the
\* required-properties stage and there is no flattened data; the document
\* { orders: [] } is valid.
C10_OrdersRequiredAbortsPipeline ==
    /\ (Validated /\ OrdersMissingOrNotArray) =>
           /\ ~validation.isValid
           /\ StagesOf(validation.errors) = {"properties"}
           /\ ~validation.hasFlattenedData
    /\ (Validated /\ jsonData = [EmptyObject EXCEPT !.orders = ArrayValue(<<>>)]) =>
           validation.isValid

\* the document is an object with an array of orders and with a top-level
\* key other than orders, version, metadata and exportedAt
HasUnexpectedKey ==
    /\ jsonData.root = "object" /\ IsArray(jsonData.orders)
    /\ UnexpectedProperties(jsonData) # {}

\* C11: a valid document with a top-level key outside orders, version,
\* metadata and exportedAt stays valid, and the warnings of the result hold a
\* warning about the unexpected key.
C11_UnexpectedKeyWarns ==
    (Validated /\ HasUnexpectedKey /\ validation.isValid) =>
        \E i \in 1..Len(validation.warnings) : validation.warnings[i].code = "unexpected"

\* C11, the part that holds: the unexpected key alone never makes the document
\* invalid, and validateRequiredProperties does raise the warning
C11_UnexpectedKeyIsNoError ==
    (Validated /\ HasUnexpectedKey) =>
        /\ ValidateRequiredProperties(jsonData).warnings # <<>>
        /\ \A i \in 1..Len(validation.errors) : validation.errors[i].code # "unexpected"

\* the order at position i of the document, or the null order
DocOrderAt(i) ==
    IF IsArray(jsonData.orders) /\ i \in 1..Len(jsonData.orders.items)
    THEN jsonData.orders.items[i] ELSE NullOrder

\* some order of the document, or some activity nested in an order, has a
\* property outside the expected fields
HasUnexpectedRecordProperty ==
    /\ jsonData.root = "object" /\ IsArray(jsonData.orders)
    /\ \E i \in 1..Len(jsonData.orders.items) :
          \/ DocOrderAt(i).extra
          \/ /\ IsArray(DocOrderAt(i).activities)
             /\ \E k \in 1..Len(DocOrderAt(i).activities.items) :
                   DocOrderAt(i).activities.items[k].extra

\* C12: a document with an order or an activity that has a property outside
\* the expected fields is invalid, with an error that reports the unexpected
\* property.
C12_UnexpectedRecordPropertyFails ==
    (Validated /\ HasUnexpectedRecordProperty) =>
        /\ ~validation.isValid
        /\ \E i \in 1..Len(validation.errors) : validation.errors[i].code = "unexpected"

\* the document has an array of orders and an array of top-level activities
\* that are objects with the fields of a flat activity
FlatForm ==
    /\ jsonData.root = "object"
    /\ IsArray(jsonData.orders) /\ IsArray(jsonData.activities)
    /\ \A k \in 1..Len(jsonData.activities.items) :
          /\ jsonData.activities.items[k].kind = "object"
          /\ ValidateId(jsonData.activities.items[k].id)
          /\ ValidateName(jsonData.activities.items[k].name)
          /\ ValidateId(jsonData.activities.items[k].orderId)

\* the top-level activity at position k is in the normalized batch with its
\* id, name and orderId
TopLevelActivityNormalized(k) ==
    /\ validation.hasFlattenedData
    /\ \E j \in 1..Len(validation.flattenedData.activities) :
          /\ validation.flattenedData.activities[j].id = jsonData.activities.items[k].id
          /\ validation.flattenedData.activities[j].name = jsonData.activities.items[k].name
          /\ validation.flattenedData.activities[j].orderId
                = jsonData.activities.items[k].orderId

\* the top-level activity at position k names an order that is not in the document
TopLevelOrphan(k) ==
    \A i \in 1..Len(jsonData.orders.items) :
        DocOrderAt(i).id # jsonData.activities.items[k].orderId

\* C13: in a flat-form document every top-level activity is in the normalized
\* batch with its own id, name and orderId, and a top-level activity that
\* names an order missing from the document makes the document invalid.
C13_FlatFormActivitiesNormalized ==
    (Validated /\ FlatForm) =>
        \A k \in 1..Len(jsonData.activities.items) :
            /\ validation.isValid => TopLevelActivityNormalized(k)
            /\ TopLevelOrphan(k) => ~validation.isValid

\* the document holds one order with a name and one nested activity with a
\* name; ids and creation times are strings where they are given
OneOrderOneActivity ==
    /\ jsonData \in OmittedFieldDocs
    /\ DocOrderAt(1).activities.items[1].kind = "object"

\* the order of the document omits its id or its createdAt, or its nested
\* activity does
OmitsIdOrCreatedAt ==
    /\ OneOrderOneActivity
    /\ \/ DocOrderAt(1).id = UNDEFINED
       \/ DocOrderAt(1).createdAt = UNDEFINED
       \/ DocOrderAt(1).activities.items[1].id = UNDEFINED
       \/ DocOrderAt(1).activities.items[1].createdAt = UNDEFINED

\* the flat order and the flat activity carry the given fields, a generated id
\* in place of an omitted id, the current time in place of an omitted
\* createdAt, and the activity points at the id of the flat order
NormalizedWithDefaults ==
    /\ validation.hasFlattenedData
    /\ Len(validation.flattenedData.orders) = 1
    /\ Len(validation.flattenedData.activities) = 1
    /\ validation.flattenedData.orders[1].id =
          (IF DocOrderAt(1).id = UNDEFINED THEN Generated("generated_order_", 0)
           ELSE DocOrderAt(1).id)
    /\ validation.flattenedData.orders[1].createdAt =
          (IF DocOrderAt(1).createdAt = UNDEFINED THEN Now ELSE DocOrderAt(1).createdAt)
    /\ validation.flattenedData.activities[1].id =
          (IF DocOrderAt(1).activities.items[1].id = UNDEFINED
           THEN Generated(Generated("generated_activity_", 0) \o "_", 0)
           ELSE DocOrderAt(1).activities.items[1].id)
    /\ validation.flattenedData.activities[1].createdAt =
          (IF DocOrderAt(1).activities.items[1].createdAt = UNDEFINED THEN Now
           ELSE DocOrderAt(1).activities.items[1].createdAt)
    /\ validation.flattenedData.activities[1].orderId
          = validation.flattenedData.orders[1].id

\* C14: a document whose order or nested activity omits id and/or createdAt
\* and is otherwise well-formed is valid, and the normalized records carry a
\* synthesized id and the current time, the nested activity pointing at the
\* id of its parent.
C14_OmittedIdAndCreatedAtAccepted ==
    (Validated /\ OmitsIdOrCreatedAt) =>
        validation.isValid /\ NormalizedWithDefaults

\* C14, the part that holds: with both ids given, an omitted createdAt is
\* accepted and replaced by the current time
C14_OmittedCreatedAtAccepted ==
    (/\ Validated /\ OmitsIdOrCreatedAt
     /\ DocOrderAt(1).id # UNDEFINED
     /\ DocOrderAt(1).activities.items[1].id # UNDEFINED) =>
        validation.isValid /\ NormalizedWithDefaults

\* the document passes validateRootStructure and holds an array of orders
PassesRootStructure ==
    jsonData.root = "object" /\ Keys(jsonData) # {} /\ IsArray(jsonData.orders)

\* the order at position i breaks a type rule of the schema stage (it is no
\* object, it lacks its id, its activities are no array) or of the record
\* stage (its name is blank)
OrderViolation(i) ==
    \/ DocOrderAt(i).kind # "object"
    \/ DocOrderAt(i).id = UNDEFINED
    \/ DocOrderAt(i).activities.kind \notin {"absent", "array"}
    \/ DocOrderAt(i).name = " "

\* some error of the result is about the order at position i
OrderReported(i) ==
    \E e \in 1..Len(validation.errors) :
        /\ validation.errors[e].stage \in {"dataTypes", "constraints", "record"}
        /\ validation.errors[e].index = i - 1

\* two orders of the document have the same id
DuplicateOrderIdPresent ==
    \E i, j \in 1..Len(jsonData.orders.items) :
        /\ i < j
        /\ DocOrderAt(i).kind = "object" /\ DocOrderAt(j).kind = "object"
        /\ DocOrderAt(i).id # UNDEFINED /\ DocOrderAt(i).id = DocOrderAt(j).id

DuplicateOrderIdReported ==
    \E e \in 1..Len(validation.errors) :
        /\ validation.errors[e].stage = "integrity"
        /\ validation.errors[e].code = "duplicateIds"
        /\ validation.errors[e].field = "order"

\* C15: for a document that passes the root-structure check, every order with
\* a type or constraint violation and every duplicate order id is reported in
\* the errors of the one result of validateImportData.
C15_AllViolationsInOneResult ==
    (Validated /\ PassesRootStructure) =>
        /\ \A i \in 1..Len(jsonData.orders.items) : OrderViolation(i) => OrderReported(i)
        /\ DuplicateOrderIdPresent => DuplicateOrderIdReported

\* C15, the part that holds: once the schema stage has passed, the record
\* checks and the integrity checks all run and their errors are in one result
C15_AfterSchemaAllReported ==
    (Validated /\ PassesRootStructure /\ validation.hasFlattenedData) =>
        /\ \A i \in 1..Len(jsonData.orders.items) : OrderViolation(i) => OrderReported(i)
        /\ DuplicateOrderIdPresent => DuplicateOrderIdReported

\* some error of the result is about the name of the order at 0-based index i
OrderNameReported(i) ==
    \E e \in 1..Len(validation.errors) :
        /\ validation.errors[e].index = i
        /\ \/ validation.errors[e].stage = "constraints" /\ validation.errors[e].field = "name"
           \/ /\ validation.errors[e].stage = "record"
              /\ validation.errors[e].field = "order" /\ validation.errors[e].code = "name"

\* the name of the second order of a document of LongNameDocs, and the name
\* of its nested activity
SecondOrderName == DocOrderAt(2).name
NestedActivityName == DocOrderAt(2).activities.items[1].name

\* C16: an order whose name has 201 characters produces an error that refers
\* to the index of the order, and a document whose names have at most 200
\* characters, one of them exactly 200, produces no error and is valid.
C16_NameLimitIs200 ==
    (Validated /\ jsonData \in LongNameDocs) =>
        /\ StrLen(SecondOrderName) = 201 => OrderNameReported(1)
        /\ (/\ StrLen(SecondOrderName) <= 200 /\ StrLen(NestedActivityName) <= 200
            /\ 200 \in {StrLen(SecondOrderName), StrLen(NestedActivityName)}) =>
               validation.isValid /\ validation.errors = <<>>

\* C16, what holds: the order name of 201 characters is reported with its
\* index, and the document is valid exactly when no name has more than 100
\* characters
C16_NameLimitIs100 ==
    (Validated /\ jsonData \in LongNameDocs) =>
        /\ StrLen(SecondOrderName) = 201 => OrderNameReported(1)
        /\ validation.isValid <=>
              (StrLen(SecondOrderName) <= 100 /\ StrLen(NestedActivityName) <= 100)

\* validateDataIntegrity has returned its result for the batch importData
IntegrityChecked == entry = "validateDataIntegrity" /\ pc = "done"

\* the activity at position i of the batch has a non-empty orderId that is
\* the id of no order of the batch
IsOrphan(i) ==
    /\ importData.activities[i].orderId # ""
    /\ \A j \in 1..Len(importData.orders) :
          importData.orders[j].id # importData.activities[i].orderId

\* the entry of orphanedActivities for the activity at position i
OrphanEntry(i) ==
    [index |-> i - 1,
     activityId |-> importData.activities[i].id,
     activityName |-> importData.activities[i].name,
     missingOrderId |-> importData.activities[i].orderId,
     severity |-> "error"]

\* the positions of orphanedActivities that hold the entry of activity i
OrphanEntriesOf(i) ==
    {k \in 1..Len(integrity.orphanedActivities) :
        integrity.orphanedActivities[k].index = i - 1}

\* C17: in the result of validateDataIntegrity every activity of the batch
\* whose non-empty orderId is the id of no order of the batch has exactly one
\* entry in orphanedActivities, with its index, id, name and the missing order
\* id; no other activity has an entry; the result is invalid whenever
\* orphanedActivities is not empty; the orders of the repository play no part.
C17_OrphansAreExactlyTheUnmatched ==
    IntegrityChecked =>
        /\ \A i \in 1..Len(importData.activities) :
              IF IsOrphan(i)
              THEN /\ Cardinality(OrphanEntriesOf(i)) = 1
                   /\ \A k \in OrphanEntriesOf(i) :
                         integrity.orphanedActivities[k] = OrphanEntry(i)
              ELSE OrphanEntriesOf(i) = {}
        /\ \A k \in 1..Len(integrity.orphanedActivities) :
              integrity.orphanedActivities[k].index \in 0..(Len(importData.activities) - 1)
        /\ integrity.orphanedActivities # <<>> => ~integrity.isValid

\* C17 witness: a batch of three activities, two of them orphans of the order
\* o9 that the repository holds, has been checked
C17_Witness ==
    /\ IntegrityChecked
    /\ Len(store.orders) = 1
    /\ Len(importData.activities) = 3
    /\ Len(integrity.orphanedActivities) = 2
    /\ integrity.orphanedActivities[1].missingOrderId = "o9"
    /\ ~integrity.isValid

\* the id of the record at position i was seen at an earlier position
SeenEarlier(records, i) == \E j \in 1..(i - 1) : records[j].id = records[i].id

\* the 0-based index at which the id of the record at position i was first seen
FirstSeenIndex(records, i) ==
    (CHOOSE j \in 1..i :
        /\ records[j].id = records[i].id
        /\ \A h \in 1..(j - 1) : records[h].id # records[i].id) - 1

\* the positions of the duplicate entries whose own index is that of record i
DuplicateEntriesOf(entries, i) == {k \in 1..Len(entries) : entries[k].indices[2] = i - 1}

\* every record whose id was seen earlier has one entry, with its id, the
\* first-seen index and its own index; no other record has an entry
DuplicatesListed(records, entries) ==
    /\ \A i \in 1..Len(records) :
          IF SeenEarlier(records, i)
          THEN /\ Cardinality(DuplicateEntriesOf(entries, i)) = 1
               /\ \A k \in DuplicateEntriesOf(entries, i) :
                     /\ entries[k].id = records[i].id
                     /\ entries[k].indices = <<FirstSeenIndex(records, i), i - 1>>
          ELSE DuplicateEntriesOf(entries, i) = {}
    /\ \A k \in 1..Len(entries) : entries[k].indices[2] \in 0..(Len(records) - 1)

\* C18: the duplicate analysis lists, for orders and for activities, one entry
\* per record whose id was seen at an earlier index, holding the first-seen
\* index and the record's own index; two orders that share an id give exactly
\* one entry with both indices; any entry makes the result invalid.
C18_IdDuplicatesListed ==
    IntegrityChecked =>
        /\ DuplicatesListed(importData.orders, integrity.duplicateAnalysis.orderIds)
        /\ DuplicatesListed(importData.activities, integrity.duplicateAnalysis.activityIds)
        /\ (/\ Len(importData.orders) = 2
            /\ importData.orders[1].id = importData.orders[2].id) =>
               /\ Len(integrity.duplicateAnalysis.orderIds) = 1
               /\ integrity.duplicateAnalysis.orderIds[1].indices = <<0, 1>>
        /\ (\/ integrity.duplicateAnalysis.orderIds # <<>>
            \/ integrity.duplicateAnalysis.activityIds # <<>>) =>
               ~integrity.duplicateAnalysis.isValid /\ ~integrity.isValid

\* C18 witness: two orders share an id and three activities share an id, the
\* third activity being listed with the index of the first
C18_Witness ==
    /\ IntegrityChecked
    /\ Len(integrity.duplicateAnalysis.orderIds) = 1
    /\ Len(integrity.duplicateAnalysis.activityIds) = 2
    /\ integrity.duplicateAnalysis.activityIds[2].indices = <<0, 2>>
    /\ ~integrity.isValid

\* the points the result of validateDataIntegrity loses: 10 per error, 2 per
\* warning, 5 per orphaned activity, 8 per duplicate order or activity id
IntegrityPenalty ==
    10 * Len(integrity.errors) + 2 * Len(integrity.warnings)
    + 5 * Len(integrity.orphanedActivities)
    + 8 * (Len(integrity.duplicateAnalysis.orderIds)
           + Len(integrity.duplicateAnalysis.activityIds))

\* C19: the integrity score is 100 minus 10 per error, 2 per warning, 5 per
\* orphaned activity and 8 per duplicate order or activity id, clamped to the
\* range 0..100: it is 0 when the penalty is 100 or more.
C19_ScoreIsClampedPenalty ==
    IntegrityChecked =>
        /\ integrity.integrityScore \in 0..100
        /\ integrity.integrityScore =
              (IF IntegrityPenalty >= 100 THEN 0 ELSE 100 - IntegrityPenalty)

\* C19 witness: a batch whose penalty exceeds 100 has the score 0
C19_Witness ==
    /\ IntegrityChecked
    /\ IntegrityPenalty > 100
    /\ integrity.integrityScore = 0

\* the batch passes validateDataTypes record by record, no id is repeated
\* among its orders or among its activities, and no activity is an orphan
CleanBatch ==
    /\ RecordErrorsOf(importData) = <<>>
    /\ \A i \in 1..Len(importData.orders) : ~SeenEarlier(importData.orders, i)
    /\ \A i \in 1..Len(importData.activities) : ~SeenEarlier(importData.activities, i)
    /\ \A i \in 1..Len(importData.activities) : ~IsOrphan(i)

\* an order of the batch repeats the name of an earlier order or has a name
\* of more than 50 characters
HasNameFinding ==
    \E i \in 1..Len(importData.orders) :
        \/ StrLen(importData.orders[i].name) > 50
        \/ \E j \in 1..(i - 1) : importData.orders[j].name = importData.orders[i].name

Converted == entry = "convert" /\ pc = "done"

\* the ids and names of a sequence of activities, in sequence
IdsAndNames(activities) ==
    [k \in 1..Len(activities) |-> <<activities[k].id, activities[k].name>>]

\* the activities embedded in the order at position i of the document
EmbeddedActivities(i) ==
    IF IsArray(DocOrderAt(i).activities) THEN DocOrderAt(i).activities.items ELSE <<>>

\* the order at position i of the re-nested document has the id and the name
\* under which the order at position i of the document was normalized
SameOrderAt(i) ==
    /\ converted.nested.orders[i].id = converted.flat.orders[i].id
    /\ converted.nested.orders[i].name = DocOrderAt(i).name
    /\ DocOrderAt(i).id # UNDEFINED => converted.nested.orders[i].id = DocOrderAt(i).id

\* the order at position i of the re-nested document carries as many
\* activities as were embedded in it, with the names in sequence and the ids
\* that were given
SameActivitiesAt(i) ==
    /\ Len(converted.nested.orders[i].activities) = Len(EmbeddedActivities(i))
    /\ \A k \in 1..Len(EmbeddedActivities(i)) :
          /\ k <= Len(converted.nested.orders[i].activities)
          /\ converted.nested.orders[i].activities[k].name = EmbeddedActivities(i)[k].name
          /\ EmbeddedActivities(i)[k].id # UNDEFINED =>
                converted.nested.orders[i].activities[k].id = EmbeddedActivities(i)[k].id

NormalizedOrderIdsDistinct ==
    \A i, j \in 1..Len(converted.flat.orders) :
        converted.flat.orders[i].id = converted.flat.orders[j].id => i = j

SourceActivities ==
    ConcatAll([i \in 1..Len(jsonData.orders.items) |-> EmbeddedActivities(i)])

\* the record at position i of a normalized list shares its id with no other
\* record of the list
IdIsUnique(records, i) == \A j \in 1..Len(records) : records[j].id = records[i].id => j = i

\* C26: after convertNestedToFlat the id synthesized for an order without id
\* equals no other order id of the normalized batch, and the id synthesized
\* for an activity without id equals no other activity id of the batch.
C26_SynthesizedIdsCollisionFree ==
    Converted =>
        /\ \A i \in 1..Len(converted.flat.orders) :
              DocOrderAt(i).id = UNDEFINED => IdIsUnique(converted.flat.orders, i)
        /\ \A k \in 1..Len(converted.flat.activities) :
              SourceActivities[k].id = UNDEFINED => IdIsUnique(converted.flat.activities, k)

\* C26, what holds: two synthesized ids of one kind never coincide
C26_SynthesizedIdsDifferFromEachOther ==
    Converted =>
        /\ \A i, j \in 1..Len(converted.flat.orders) :
              (DocOrderAt(i).id = UNDEFINED /\ DocOrderAt(j).id = UNDEFINED /\ i # j) =>
                  converted.flat.orders[i].id # converted.flat.orders[j].id
        /\ \A k, h \in 1..Len(converted.flat.activities) :
              (SourceActivities[k].id = UNDEFINED /\ SourceActivities[h].id = UNDEFINED
               /\ k # h) =>
                  converted.flat.activities[k].id # converted.flat.activities[h].id

\* the order stored at position i when the call started has the id or the
\* name of the batch order at position k
OrderMatch(k, i) ==
    \/ storeBefore.orders[i].id = importData.orders[k].id
    \/ storeBefore.orders[i].name = importData.orders[k].name

\* the activity stored at position i when the call started has the id of the
\* batch activity at position j, or its name together with its orderId
ActivityMatch(j, i) ==
    \/ storeBefore.activities[i].id = importData.activities[j].id
    \/ /\ storeBefore.activities[i].name = importData.activities[j].name
       /\ storeBefore.activities[i].orderId = importData.activities[j].orderId

\* positions of the batch records that have a match in the store
MatchedOrders ==
    {k \in 1..NumOrders : \E i \in 1..Len(storeBefore.orders) : OrderMatch(k, i)}
MatchedActivities ==
    {j \in 1..NumActivities : \E i \in 1..Len(storeBefore.activities) : ActivityMatch(j, i)}

\* the entry lists the batch order at position k with its first match
OrderEntryOf(e, k) ==
    /\ e.import = importData.orders[k]
    /\ \E i \in 1..Len(storeBefore.orders) :
          /\ OrderMatch(k, i) /\ \A h \in 1..(i - 1) : ~OrderMatch(k, h)
          /\ e.existing = storeBefore.orders[i]
          /\ e.type = IF storeBefore.orders[i].id = importData.orders[k].id
                      THEN "id" ELSE "name"

ActivityEntryOf(e, j) ==
    /\ e.import = importData.activities[j]
    /\ \E i \in 1..Len(storeBefore.activities) :
          /\ ActivityMatch(j, i) /\ \A h \in 1..(i - 1) : ~ActivityMatch(j, h)
          /\ e.existing = storeBefore.activities[i]
          /\ e.type = IF storeBefore.activities[i].id = importData.activities[j].id
                      THEN "id" ELSE "name"

----------------------------------------------------------------------------
(* C23 : severity of a validation failure *)

SeverityAssigned == entry = "handleValidationError" /\ pc = "done"

OrphansPresent ==
    /\ "orphanedActivities" \in DOMAIN validation
    /\ Len(validation.orphanedActivities) > 0

\* C23: for a validation result with at least one error, the severity that
\* handleValidationError assigns is "error" if orphaned activities are
\* present or there are at least 10 errors, and "warning" in every other
\* case, 5 to 9 errors without orphans included.
C23_SeverityByOrphansAndCount ==
    (SeverityAssigned /\ Len(validation.errors) >= 1) =>
        processedError.severity =
            IF OrphansPresent \/ Len(validation.errors) >= 10 THEN "error" ELSE "warning"

\* what the code assigns: "warning" only below five errors without orphans
C23_SeverityWarnsBelowFive ==
    (SeverityAssigned /\ Len(validation.errors) >= 1) =>
        processedError.severity =
            IF OrphansPresent \/ Len(validation.errors) >= 5 THEN "error" ELSE "warning"

\* seven errors without orphans have been given a severity
C23_SevenErrorsNoOrphans ==
    /\ SeverityAssigned
    /\ Len(validation.errors) = 7
    /\ ~OrphansPresent

----------------------------------------------------------------------------
(* C24 : failures of the entry points and their diagnostics *)

Taxonomy ==
    {"FILE_FORMAT_ERROR", "FILE_SIZE_ERROR", "JSON_PARSE_ERROR", "SCHEMA_VALIDATION_ERROR",
     "DATA_INTEGRITY_ERROR", "STORAGE_ERROR", "NETWORK_ERROR", "IMPORT_EXECUTION_ERROR",
     "UNKNOWN_ERROR"}

\* an entry point has thrown to its caller
EntryPointFailed ==
    /\ entry \in {"importFromFile", "importFromJSON"}
    /\ pc = "done"
    /\ thrown # "none"

Classified ==
    /\ processedError.type \in Taxonomy
    /\ processedError.title # UNDEFINED
    /\ processedError.solution # UNDEFINED

\* C24: every failure that reaches the caller of importFromFile or
\* importFromJSON carries a classified diagnostics object with a taxonomy
\* type, a title and a solution.
C24_EveryFailureIsClassified == EntryPointFailed => Classified

\* what the code does: the errors importFromFile throws for a file that was
\* handed over are classified, the errors of importFromJSON never are
C24_FileFailuresAreClassified ==
    EntryPointFailed =>
        (Classified <=> (entry = "importFromFile" /\ thrown # "typeError"))

\* importFromJSON has thrown a validation error
C24_JSONValidationFailure ==
    /\ entry = "importFromJSON" /\ pc = "done" /\ thrown = "validation"
    /\ ~Classified

----------------------------------------------------------------------------
(* C25 : the timer tracks one running session *)

\* the session that was running when the last call began is no longer
\* running in the repository
PreviousSessionEnded ==
    \A i \in 1..Len(sessionStore.sessions) :
        sessionStore.sessions[i].id = timerCall.previousSession.id =>
            sessionStore.sessions[i].endTime # NULL

StartSucceeded ==
    /\ entry \in {"startWork", "switchWork"}
    /\ pc = "idle"
    /\ timerCall.returned

\* the session the timer tracks is stored and running
TracksStoredSession ==
    \E i \in 1..Len(sessionStore.sessions) :
        /\ sessionStore.sessions[i] = timer.currentSession
        /\ sessionStore.sessions[i].endTime = NULL

\* C25: startWork or switchWork called while a session is running ends that
\* session in the repository before the new one is created; after a
\* successful call the current session is a new session, of another id, for
\* the requested activity; after stopWork the timer is idle.
C25_OneRunningSession ==
    /\ (pc = "createSession" /\ timerCall.previousSession # NoSession) =>
            (timer.currentSession = NoSession /\ PreviousSessionEnded)
    /\ StartSucceeded =>
            /\ timer.currentSession # NoSession
            /\ timer.currentSession.activityId = timerCall.activityId
            /\ TracksStoredSession
            /\ timerCall.previousSession # NoSession =>
                    /\ timer.currentSession.id # timerCall.previousSession.id
                    /\ PreviousSessionEnded
    /\ (entry = "stopWork" /\ pc = "idle") =>
            (timer.currentSession = NoSession /\ ~timer.timerInterval)

\* startWork has succeeded while another session was running and stored
C25_Witness ==
    /\ StartSucceeded
    /\ entry = "startWork"
    /\ timerCall.previousSession # NoSession
    /\ \E i \in 1..Len(sessionStore.sessions) :
            sessionStore.sessions[i].id = timerCall.previousSession.id

----------------------------------------------------------------------------
(* C27 : empty, blank and control-character ids and names *)

\* the empty string, blanks only, or a character of 0x00-0x1F or 0x7F at
\* some position
EmptyOrBlank(text) == text \in {"", " "}
ContainsControlChar(text) == text \in {"A<0x07>", "<0x09>A"}
Unacceptable(text) == EmptyOrBlank(text) \/ ContainsControlChar(text)

\* a document of one order that has one activity, ids and names strings
OneOrderWithActivity ==
    /\ Validated
    /\ jsonData \in OddTextDocs

DocOrderOne == jsonData.orders.items[1]
DocActivityOne == jsonData.orders.items[1].activities.items[1]

RecordRejected(type) ==
    /\ ~validation.isValid
    /\ \E e \in 1..Len(validation.errors) :
            /\ validation.errors[e].stage \in {"dataTypes", "constraints", "record"}
            /\ validation.errors[e].stage = "record" => validation.errors[e].field = type

\* C27: validateImportData rejects, with an error for the record, every
\* order or activity whose id or name is empty or whitespace-only or holds a
\* control character at any position.
C27_OddIdsAndNamesAreRejected ==
    OneOrderWithActivity =>
        /\ (Unacceptable(DocOrderOne.id) \/ Unacceptable(DocOrderOne.name)) =>
                RecordRejected("order")
        /\ (Unacceptable(DocActivityOne.id) \/ Unacceptable(DocActivityOne.name)) =>
                RecordRejected("activity")

\* what the code rejects: a blank id or name, and an id that still holds a
\* control character once it is trimmed; the empty string gets a default, a
\* name is not searched for control characters
RejectedId(text) == text = " " \/ HasControlChar(Trim(text))
RejectedName(text) == text = " "
C27_BlankAndControlIdsAreRejected ==
    OneOrderWithActivity =>
        /\ validation.isValid <=>
                ~(\/ RejectedId(DocOrderOne.id) \/ RejectedName(DocOrderOne.name)
                  \/ RejectedId(DocActivityOne.id) \/ RejectedName(DocActivityOne.name))

\* an order with the empty string as id has been validated and found valid
C27_EmptyIdAccepted ==
    /\ OneOrderWithActivity
    /\ DocOrderOne.id = ""
    /\ validation.isValid

----------------------------------------------------------------------------
(* C28 : referential integrity of the store across executeImport *)

\* every activity of the store belongs to an order of the store
ReferentialIntegrity(st) ==
    \A i \in 1..Len(st.activities) :
        \E j \in 1..Len(st.orders) : st.orders[j].id = st.activities[i].orderId

\* executeImport has returned
ImportReturned == entry \in {"executeImport", "importFromJSON"} /\ pc = "done" /\ options.given

\* C28: under every policy, when every stored activity belongs to a stored
\* order before the run and the duplicate lists were computed by
\* checkDuplicates on that store, every stored activity belongs to a stored
\* order after the run.
C28_ReferentialIntegrityPreserved ==
    (ImportReturned /\ FreshDuplicateCheck /\ ReferentialIntegrity(storeBefore)) =>
        ReferentialIntegrity(store)

\* the policies that keep it: skip, merge and the default
C28_ReferentialIntegrityPreservedUnlessOverwrite ==
    (ImportReturned /\ FreshDuplicateCheck /\ ReferentialIntegrity(storeBefore)
     /\ Policy # "overwrite") =>
        ReferentialIntegrity(store)

----------------------------------------------------------------------------
(* C29 : no duplicate id enters the store, no record leaves it *)

IdsDistinct(records) ==
    \A i, j \in 1..Len(records) : records[i].id = records[j].id => i = j

\* every record stored when the run began is still stored, under its id
NoRecordRemoved(before, now) ==
    /\ Len(now) >= Len(before)
    /\ \A i \in 1..Len(before) : now[i].id = before[i].id

\* executeImport is running or has returned
ImportStarted ==
    /\ entry \in {"executeImport", "importFromJSON"}
    /\ pc \in {"importOrders", "importActivities", "importFromJSON", "done"}

\* C29: for any batch and any duplicateCheck argument, an empty or an
\* outdated one included, ids of stored orders and of stored activities that
\* were pairwise distinct before the run are pairwise distinct after it, and
\* no stored record is removed.
C29_NoDuplicateIdNoRemoval ==
    ImportStarted =>
        /\ IdsDistinct(storeBefore.orders) => IdsDistinct(store.orders)
        /\ IdsDistinct(storeBefore.activities) => IdsDistinct(store.activities)
        /\ NoRecordRemoved(storeBefore.orders, store.orders)
        /\ NoRecordRemoved(storeBefore.activities, store.activities)

\* executeImport has returned from a run whose duplicate lists were empty
\* although the batch held an order under the id of a stored order
C29_Witness ==
    /\ entry = "executeImport" /\ pc = "done" /\ options.given
    /\ duplicateCheck.duplicateOrders = <<>>
    /\ \E k \in 1..Len(importData.orders), i \in 1..Len(storeBefore.orders) :
            importData.orders[k].id = storeBefore.orders[i].id

----------------------------------------------------------------------------
(* C30 : one outcome per batch record *)

\* the final saveData() threw and executeImport reported it
SaveFailed ==
    \E e \in 1..Len(result.errors) :
        result.errors[e] = [entity |-> "store", name |-> "saveData"]

OutcomesCounted ==
    result.newOrders + result.updatedOrders + result.skippedOrders
    + result.newActivities + result.updatedActivities + result.skippedActivities
    + Len(result.errors)

\* C30: when options are supplied and the final persistence write does not
\* fail, the six counters and the number of errors add up to the number of
\* orders plus the number of activities of the batch, and the store has
\* grown by newOrders orders and newActivities activities.
C30_OneOutcomePerRecord ==
    (ImportReturned /\ ~SaveFailed) =>
        /\ OutcomesCounted = NumOrders + NumActivities
        /\ Len(store.orders) = Len(storeBefore.orders) + result.newOrders
        /\ Len(store.activities) = Len(storeBefore.activities) + result.newActivities

\* a run has returned that created an order, met a duplicate order and
\* failed to create an activity
C30_Witness ==
    /\ ImportReturned /\ ~SaveFailed
    /\ result.newOrders = 1
    /\ result.updatedOrders + result.skippedOrders = 1
    /\ NumActivities = 1
    /\ Len(result.errors) = 1

====
